---- MODULE Spec2Model ----
(***************************************************************************)
(* starship-jj: the lazy repository-fact cache (src/state.rs), the         *)
(* bookmark resolver (src/main.rs), and the render pipeline with its      *)
(* deadline watchdog (src/config.rs).                                      *)
(*                                                                         *)
(* Rust's Option<T> is a sequence of length at most one: None is <<>> and  *)
(* Some(x) is <<x>>, so Option<Option<T>> keeps "not yet computed"         *)
(* (<<>>), "computed, absent" (<< <<>> >>) and "computed, present"         *)
(* (<< <<x>> >>) apart.  Result<T, E> is a record with an `ok` flag.       *)
(***************************************************************************)
EXTENDS Integers, Sequences, FiniteSets, TLC

VARIABLES
    world,      \* what the version-control engine holds (fixed during a run)
    st,         \* crate::State, the lazy cache of src/state.rs
    lastCall,   \* the most recent State accessor call: name, result, engine calls
    returned,   \* per accessor, the value its latest successful call returned
    cfg,        \* config::Config, as deserialized
    data,       \* crate::JJData, the facts the modules' parse steps stored
    bmCall,     \* the most recent find_parent_bookmarks run
    pc,         \* the primary thread's place in Config::print
    result,     \* what Config::print returned, once it has
    out,        \* the standard output stream: the writes, in order
    prev_style, \* Config::print's prev_style, the style emitted last
    wd,         \* the watchdog thread's place
    done,       \* the AtomicBool `done` of Config::print
    exited,     \* who ended the process, once it has ended
    events,     \* the parse and render steps taken, in order
    wokeAt      \* the primary thread's place when the watchdog's sleep ended

cacheVars == <<st, lastCall, returned>>
pipeVars == <<pc, result, out, prev_style, wd, done, exited, events, wokeAt>>
vars == <<world, st, lastCall, returned, cfg, data, bmCall,
          pc, result, out, prev_style, wd, done, exited, events, wokeAt>>

\* ------------------------------------------------------------------ bounds

NumCommits == 4
MaxParents == 2
MaxSearchDepth == 2

\* ------------------------------------------------------- Option and Result

None == <<>>
Some(x) == <<x>>
IsSome(o) == o # <<>>
IsNone(o) == o = <<>>
Unwrap(o) == o[1]

Ok(v) == [ok |-> TRUE, v |-> v]
Err(e) == [ok |-> FALSE, e |-> e]

\* ------------------------------------------------------------ engine world

Commits == 1..NumCommits
Trees == {"t1", "t2"}

\* Commit graphs: commit 1 is the root, every other commit has one to
\* MaxParents parents among the commits before it.
ParentChoices(c) ==
    { ps \in SUBSET (1..(c - 1)) :
        Cardinality(ps) <= MaxParents /\ (c > 1 => ps # {}) }

\* The histories of n commits, built commit by commit.
RECURSIVE GraphsOn(_)
GraphsOn(n) ==
    IF n = 0 THEN { <<>> }
    ELSE { Append(g, ps) : g \in GraphsOn(n - 1), ps \in ParentChoices(n) }

Graphs == GraphsOn(NumCommits)

RECURSIVE SetToSeq(_)
SetToSeq(S) ==
    IF S = {} THEN <<>>
    ELSE LET m == CHOOSE x \in S : \A y \in S : x <= y
         IN <<m>> \o SetToSeq(S \ {m})

\* Commit::parents(): the parent commits, in the commit's own order.
ParentsOf(c) == SetToSeq(world.parents[c])

\* Commit::tree().
TreeOf(c) == world.tree[c]

\* Commit::parent_tree(): the root's parent tree is the empty tree, a single
\* parent's tree is taken as is, several parents' trees are merged by the
\* engine (equal trees merge to themselves).
ParentTreeOf(c) ==
    LET ts == { world.tree[p] : p \in world.parents[c] }
    IN  IF ts = {} THEN "t0"
        ELSE IF Cardinality(ts) = 1 THEN CHOOSE t \in ts : TRUE
        ELSE "merged"

\* Names are strings of characters, so that `name@remote` and glob patterns
\* are computed on them.
LocalNames == { <<"a">>, <<"b">> }
RemoteSymbols == { [name |-> <<"a">>, remote |-> <<"o">>] }
OptCommits == {None} \cup { Some(c) : c \in Commits }

\* The engine calls that can fail, and the oracle of one handler run: either
\* no engine call fails, or the calls of one kind fail, each with the error
\* of its kind.
FallibleCalls ==
    { "workspace_helper", "workspace_helper_no_snapshot", "get_commit",
      "parents", "parent_tree", "tree", "get_copy_records", "add_records",
      "diff_stats_calculate" }
EngineError(k) == [call |-> k, code |-> "engine"]
OraclesOf(calls) == {None} \cup { Some(EngineError(k)) : k \in calls }
Oracles == OraclesOf(FallibleCalls)

\* ------------------------------------------------------------ src/state.rs

\* A run of State code: the cache, the engine calls made so far (with their
\* outcome), and the error being propagated by `?`, if any.  Every operation
\* below maps a run to a run and leaves a failed run as it is, so that
\* `a()?; b()?` is b(a(r)).
Run(s) == [st |-> s, calls |-> <<>>, err |-> None]
Failed(r) == IsSome(r.err)

\* One fallible engine call: it is recorded, and fails when the oracle says so.
EngineCall(r, o, kind) ==
    IF Failed(r) THEN r
    ELSE IF IsSome(o) /\ Unwrap(o).call = kind
    THEN [r EXCEPT !.calls = Append(@, [call |-> kind, ok |-> FALSE]),
                   !.err = Some(Unwrap(o))]
    ELSE [r EXCEPT !.calls = Append(@, [call |-> kind, ok |-> TRUE])]

\* One engine lookup that cannot fail.
EngineRead(r, kind) ==
    IF Failed(r) THEN r
    ELSE [r EXCEPT !.calls = Append(@, [call |-> kind, ok |-> TRUE])]

\* `self.<field> = Some(value)`, reached only when nothing failed before it.
Store(r, field, value) ==
    IF Failed(r) THEN r ELSE [r EXCEPT !.st[field] = Some(value)]

\* `Some(Some(x))`: a slot that is computed and present.
Present(slot) == IsSome(slot) /\ IsSome(Unwrap(slot))

\* State::new
NewState(snapshot) ==
    [snapshot |-> snapshot, workspace_helper |-> None, repo |-> None,
     commit_id |-> None, commit |-> None, parent_commits |-> None,
     tree |-> None, parent_tree |-> None]

\* The value an accessor hands out after its load_* returned Ok; reading a
\* slot that is still None is the accessor's unreachable!().
Slot(r, field) ==
    IF Failed(r) THEN Err(Unwrap(r.err))
    ELSE IF IsNone(r.st[field]) THEN Err([call |-> "unreachable", code |-> "panic"])
    ELSE Ok(Unwrap(r.st[field]))

WorkspaceCall(s) ==
    IF s.snapshot THEN "workspace_helper" ELSE "workspace_helper_no_snapshot"

load_workspace(r, o) ==
    IF Failed(r) \/ IsSome(r.st.workspace_helper) THEN r
    ELSE Store(EngineCall(r, o, WorkspaceCall(r.st)), "workspace_helper", "WS")

workspace_helper(r, o) == load_workspace(r, o)

load_repo(r, o) ==
    IF Failed(r) \/ IsSome(r.st.repo) THEN r
    ELSE Store(workspace_helper(r, o), "repo", "Repo")

repo(r, o) == load_repo(r, o)

\* Mutant of load_commit_id: the working-copy commit id is read without
\* `self.repo()?` and `self.workspace_helper()?` before it.
load_commit_id_direct(r, o) ==
    IF Failed(r) \/ IsSome(r.st.commit_id) THEN r
    ELSE Store(EngineRead(r, "get_wc_commit_id"), "commit_id", world.wc)

load_commit_id(r, o) ==
    IF Failed(r) \/ IsSome(r.st.commit_id) THEN r
    ELSE Store(EngineRead(workspace_helper(repo(r, o), o), "get_wc_commit_id"),
               "commit_id", world.wc)

commit_id(r, o) == load_commit_id(r, o)

\* Mutant of fetch_commit: an absent commit id is looked up all the same.
fetch_commit_always(r, o) ==
    IF Failed(r) THEN r
    ELSE Store(EngineCall(r, o, "get_commit"), "commit", Unwrap(r.st.commit_id))

\* load_commit after `self.repo()?` and `self.commit_id()?`.
fetch_commit(r, o) ==
    IF Failed(r) THEN r
    ELSE IF IsNone(Unwrap(r.st.commit_id)) THEN Store(r, "commit", None)
    ELSE Store(EngineCall(r, o, "get_commit"), "commit", Unwrap(r.st.commit_id))

\* Mutant of load_commit: the `is_some()` early return is missing.
load_commit_uncached(r, o) ==
    IF Failed(r) THEN r
    ELSE fetch_commit(commit_id(repo(r, o), o), o)

load_commit(r, o) ==
    IF Failed(r) \/ IsSome(r.st.commit) THEN r
    ELSE fetch_commit(commit_id(repo(r, o), o), o)

commit(r, o) == load_commit(r, o)

\* Mutant of fetch_parent_commits: when reading the parents fails, the empty
\* list is stored before the error is propagated.
fetch_parent_commits_defaulting(r, o) ==
    IF Failed(r) THEN r
    ELSE IF IsNone(Unwrap(r.st.commit)) THEN Store(r, "parent_commits", <<>>)
    ELSE IF Failed(EngineCall(r, o, "parents"))
         THEN [EngineCall(r, o, "parents") EXCEPT !.st.parent_commits = Some(<<>>)]
    ELSE Store(EngineCall(r, o, "parents"), "parent_commits",
               ParentsOf(Unwrap(Unwrap(r.st.commit))))

\* load_parent_commits after `self.commit()?`.
fetch_parent_commits(r, o) ==
    IF Failed(r) THEN r
    ELSE IF IsNone(Unwrap(r.st.commit)) THEN Store(r, "parent_commits", <<>>)
    ELSE Store(EngineCall(r, o, "parents"), "parent_commits",
               ParentsOf(Unwrap(Unwrap(r.st.commit))))

load_parent_commits(r, o) ==
    IF Failed(r) \/ IsSome(r.st.parent_commits) THEN r
    ELSE fetch_parent_commits(commit(r, o), o)

parent_commits(r, o) == load_parent_commits(r, o)

\* load_parent_tree after `self.repo()?` and `self.commit()?`.
fetch_parent_tree(r, o) ==
    IF Failed(r) THEN r
    ELSE IF IsNone(Unwrap(r.st.commit)) THEN Store(r, "parent_tree", None)
    ELSE Store(EngineCall(r, o, "parent_tree"), "parent_tree",
               Some(ParentTreeOf(Unwrap(Unwrap(r.st.commit)))))

load_parent_tree(r, o) ==
    IF Failed(r) \/ IsSome(r.st.parent_tree) THEN r
    ELSE fetch_parent_tree(commit(repo(r, o), o), o)

parent_tree(r, o) == load_parent_tree(r, o)

\* Mutant of fetch_tree: a failed tree read is stored as "absent" instead of
\* being propagated.
fetch_tree_swallowing(r, o) ==
    IF Failed(r) THEN r
    ELSE IF IsNone(Unwrap(r.st.commit)) THEN Store(r, "tree", None)
    ELSE IF Failed(EngineCall(r, o, "tree"))
         THEN Store([EngineCall(r, o, "tree") EXCEPT !.err = None], "tree", None)
    ELSE Store(EngineCall(r, o, "tree"), "tree",
               Some(TreeOf(Unwrap(Unwrap(r.st.commit)))))

\* load_tree after `self.commit()?`.
fetch_tree(r, o) ==
    IF Failed(r) THEN r
    ELSE IF IsNone(Unwrap(r.st.commit)) THEN Store(r, "tree", None)
    ELSE Store(EngineCall(r, o, "tree"), "tree",
               Some(TreeOf(Unwrap(Unwrap(r.st.commit)))))

load_tree(r, o) ==
    IF Failed(r) \/ IsSome(r.st.tree) THEN r
    ELSE fetch_tree(commit(r, o), o)

tree(r, o) == load_tree(r, o)

\* The copy records of diff_stats: one get_copy_records and one add_records
\* per parent id, stopping at the first failure.
RECURSIVE copy_records(_, _, _)
copy_records(r, o, ps) ==
    IF Failed(r) \/ ps = <<>> THEN r
    ELSE copy_records(EngineCall(EngineCall(r, o, "get_copy_records"), o, "add_records"),
                      o, Tail(ps))

\* What a derived operation returns when its run ended without a failure.
Returning(r, value) ==
    [run |-> r, res |-> IF Failed(r) THEN Err(Unwrap(r.err)) ELSE Ok(value)]

\* diff_stats after `load_parent_tree()?; load_tree()?; repo()?`.
diff_stats_body(r, o) ==
    IF Failed(r) THEN Returning(r, None)
    ELSE IF ~Present(r.st.commit) THEN Returning(r, None)
    ELSE IF ~Present(r.st.tree) THEN Returning(r, None)
    ELSE IF ~Present(r.st.parent_tree) THEN Returning(r, None)
    ELSE Returning(
            EngineCall(copy_records(r, o, ParentsOf(Unwrap(Unwrap(r.st.commit)))),
                       o, "diff_stats_calculate"),
            Some([from |-> Unwrap(Unwrap(r.st.parent_tree)),
                  to |-> Unwrap(Unwrap(r.st.tree))]))

\* State::diff_stats: the run and the Result<Option<DiffStats>> it returns.
diff_stats(r, o) == diff_stats_body(repo(load_tree(load_parent_tree(r, o), o), o), o)

\* Mutant of commit_is_empty_body: the two slots are compared as they are,
\* so two absent trees count as equal.
commit_is_empty_body_raw(r) ==
    IF Failed(r) THEN Returning(r, None)
    ELSE Returning(r, Some(r.st.tree = r.st.parent_tree))

\* commit_is_empty after `load_parent_tree()?; load_tree()?`.
commit_is_empty_body(r) ==
    IF Failed(r) THEN Returning(r, None)
    ELSE IF ~Present(r.st.tree) THEN Returning(r, None)
    ELSE IF ~Present(r.st.parent_tree) THEN Returning(r, None)
    ELSE Returning(r, Some(Unwrap(Unwrap(r.st.tree)) = Unwrap(Unwrap(r.st.parent_tree))))

\* State::commit_is_empty: the run and the Result<Option<bool>> it returns.
commit_is_empty(r, o) == commit_is_empty_body(load_tree(load_parent_tree(r, o), o))

\* ------------------------------------------- the cache under any caller

Accessors ==
    { "workspace_helper", "repo", "commit_id", "commit", "parent_commits",
      "tree", "parent_tree" }
Derived == { "diff_stats", "commit_is_empty" }

\* The worlds the cache is exercised on: no working-copy commit, or the last
\* commit as working copy on top of a linear history, with every choice of
\* its parents; trees alternate, so that the working copy's tree equals its
\* parent tree for some parents and differs for others.
LinearGraph == [c \in Commits |-> IF c = 1 THEN {} ELSE {c - 1}]
TopGraphs == { g \in Graphs : \A c \in Commits : c < NumCommits => g[c] = LinearGraph[c] }
AlternatingTrees == [c \in Commits |-> IF c % 2 = 1 THEN "t1" ELSE "t2"]
\* The working copy has no description yet; every other commit has one.
Descriptions == [c \in Commits |-> IF c = NumCommits THEN <<>> ELSE << "o", "l", "d" >>]
\* The shortest unique prefix lengths of the working copy's ids.
PrefixLengths == [commit_id |-> 2, change_id |-> 1]
NoBookmarks == [n \in LocalNames |-> None]
NoRemoteBookmarks == [n \in RemoteSymbols |-> None]
CacheWorld(w, g) ==
    [wc |-> w, parents |-> g, tree |-> AlternatingTrees,
     local |-> NoBookmarks, remote |-> NoRemoteBookmarks,
     desc |-> Descriptions, prefix_len |-> PrefixLengths]
CacheWorlds ==
    { CacheWorld(Some(NumCommits), g) : g \in TopGraphs }
    \cup { CacheWorld(None, LinearGraph) }

\* impl Default for BookmarkConfig
default_search_depth == 100
DefaultBookmarkConfig == [search_depth |-> default_search_depth, exclude |-> {}]

\* JJData::default()
NewData ==
    [bookmarks |-> None, desc |-> None, ahead |-> FALSE,
     commit_id |-> None, change_id |-> None,
     warnings |-> [empty |-> None], diff |-> None]

NoResolve == [res |-> Ok(None), calls |-> <<>>, target |-> None]

\* Config::print has not been entered.
PipelineIdle ==
    /\ pc = [i |-> 0, phase |-> "idle"]
    /\ result = None
    /\ out = <<>>
    /\ prev_style = None
    /\ wd = "unspawned"
    /\ done = FALSE
    /\ exited = None
    /\ events = <<>>
    /\ wokeAt = None

NoCall == [acc |-> "none", res |-> Ok(None), calls |-> <<>>]

CacheInit ==
    /\ world \in CacheWorlds
    /\ st \in { NewState(b) : b \in BOOLEAN }
    /\ lastCall = NoCall
    /\ returned = [a \in Accessors |-> None]
    /\ cfg = [bookmarks |-> DefaultBookmarkConfig]
    /\ data = NewData
    /\ bmCall = NoResolve
    /\ PipelineIdle

\* A caller's call of accessor `acc`, which ran as `r` and returned `res`.
Record(acc, r, res) ==
    /\ st' = r.st
    /\ lastCall' = [acc |-> acc, res |-> res, calls |-> r.calls]
    /\ returned' = IF res.ok /\ acc \in Accessors
                   THEN [returned EXCEPT ![acc] = Some(res.v)]
                   ELSE returned
    /\ UNCHANGED <<world, cfg, data, bmCall, pipeVars>>

\* An accessor call: the run of its load_*, then the slot read.
Access(acc, r) == Record(acc, r, Slot(r, acc))

\* A derived operation's call.
Derive(acc, d) == Record(acc, d.run, d.res)

CallWorkspaceHelper ==
    \E o \in Oracles : Access("workspace_helper", workspace_helper(Run(st), o))

CallRepo ==
    \E o \in Oracles : Access("repo", repo(Run(st), o))

CallCommitId ==
    \E o \in Oracles : Access("commit_id", commit_id(Run(st), o))

CallCommit ==
    \E o \in Oracles : Access("commit", commit(Run(st), o))

CallParentCommits ==
    \E o \in Oracles : Access("parent_commits", parent_commits(Run(st), o))

CallTree ==
    \E o \in Oracles : Access("tree", tree(Run(st), o))

CallParentTree ==
    \E o \in Oracles : Access("parent_tree", parent_tree(Run(st), o))

CallDiffStats ==
    \E o \in Oracles : Derive("diff_stats", diff_stats(Run(st), o))

CallCommitIsEmpty ==
    \E o \in Oracles : Derive("commit_is_empty", commit_is_empty(Run(st), o))

CacheNext ==
    \/ CallWorkspaceHelper
    \/ CallRepo
    \/ CallCommitId
    \/ CallCommit
    \/ CallParentCommits
    \/ CallTree
    \/ CallParentTree
    \/ CallDiffStats
    \/ CallCommitIsEmpty

SpecCache == CacheInit /\ [][CacheNext]_vars

\* ------------------------------------- src/main.rs: bookmark resolution

\* The revset queries find_parent_bookmarks sends to the engine.
RevsetCalls == { "revset:@", "revset:latest(heads(::@- & bookmarks()))", "revset:target::@" }

\* `::x`: the commit and all its ancestors.
RECURSIVE Ancestors(_)
Ancestors(c) == {c} \cup UNION { Ancestors(p) : p \in world.parents[c] }

\* `@`: the working-copy commit of the workspace.
RevsetWc == IF IsSome(world.wc) THEN { Unwrap(world.wc) } ELSE {}

\* `bookmarks()`: the targets of the local bookmarks.
BookmarkTargets ==
    { c \in DOMAIN world.parents : \E n \in LocalNames : world.local[n] = Some(c) }

\* Mutant of Heads: every commit of S counts as a head.
Heads_unfiltered(S) == S

\* `heads(S)`: the commits of S that are no ancestor of another commit of S.
Heads(S) == { c \in S : ~\E d \in S : d # c /\ c \in Ancestors(d) }

\* `heads(::@- & bookmarks())`
TugCandidates ==
    Heads(UNION { Ancestors(p) : p \in UNION { world.parents[c] : c \in RevsetWc } }
          \cap BookmarkTargets)

\* `latest(S)`: the commit of S with the newest committer timestamp, as a
\* list of commit ids.  Heads are unrelated by ancestry, so any of them may be
\* the newest: `newest` names it.
Latest(S, newest) == IF S = {} THEN <<>> ELSE <<newest>>

\* `a::b`: the descendants of a that are ancestors of b.
DagRange(a, b) == { c \in Ancestors(b) : a \in Ancestors(c) }

\* glob::Pattern::matches, for patterns of literal characters, `?` and `*`.
RECURSIVE GlobMatches(_, _)
GlobMatches(p, str) ==
    IF p = <<>> THEN str = <<>>
    ELSE IF Head(p) = "*"
         THEN GlobMatches(Tail(p), str) \/ (str # <<>> /\ GlobMatches(p, Tail(str)))
    ELSE /\ str # <<>>
         /\ (Head(p) = "?" \/ Head(p) = Head(str))
         /\ GlobMatches(Tail(p), Tail(str))

\* Mutant of Excluded: only a pattern equal to the name excludes it.
Excluded_literal(config, name) == name \in config.exclude

\* config.exclude.iter().any(|glob| glob.matches(name))
Excluded(config, name) == \E g \in config.exclude : GlobMatches(g, name)

\* format!("{}@{}", symbol.name, symbol.remote)
RemoteDisplay(sym) == sym.name \o <<"@">> \o sym.remote

\* BTreeMap<String, usize>: a function from names to distances.
EmptyMap == [n \in {} |-> 0]
InsertAll(m, names, distance) ==
    [n \in DOMAIN m \cup names |-> IF n \in names THEN distance ELSE m[n]]

\* collect_bookmarks_for_commit, the local loop: the names inserted.
CollectedLocal(c, config) ==
    { n \in LocalNames : world.local[n] = Some(c) /\ ~Excluded(config, n) }

\* collect_bookmarks_for_commit, the remote loop: the names inserted, given
\* the map's keys after the local loop.
CollectedRemote(c, config, local_names) ==
    { RemoteDisplay(sym) :
        sym \in { x \in RemoteSymbols :
                    /\ world.remote[x] = Some(c)
                    /\ x.name \notin local_names
                    /\ ~Excluded(config, RemoteDisplay(x)) } }

\* collect_bookmarks_for_commit: the map after it, and whether any bookmark
\* was found.
collect_bookmarks_for_commit(c, config, bookmarks, distance) ==
    [bookmarks |->
        InsertAll(InsertAll(bookmarks, CollectedLocal(c, config), distance),
                  CollectedRemote(c, config,
                                  DOMAIN bookmarks \cup CollectedLocal(c, config)),
                  distance),
     found |->
        \/ CollectedLocal(c, config) # {}
        \/ CollectedRemote(c, config,
                           DOMAIN bookmarks \cup CollectedLocal(c, config)) # {}]

\* usize::saturating_sub(1)
SaturatingPred(n) == IF n >= 1 THEN n - 1 ELSE 0

\* Mutant of Distance: the working copy is taken out of the range before the
\* count.
Distance_exclusive(target) ==
    SaturatingPred(Cardinality(DagRange(target, Unwrap(world.wc)) \ { Unwrap(world.wc) }))

\* count(target::@) - 1
Distance(target) ==
    SaturatingPred(Cardinality(DagRange(target, Unwrap(world.wc))))

\* A run of find_parent_bookmarks: the State run it is part of, the map being
\* filled, the target commit once chosen, and whether it has returned.
Resolving(r) == [run |-> r, bookmarks |-> EmptyMap, target |-> None, done |-> FALSE]

\* parse_revset(..)?.evaluate_to_commit_ids()?.collect()?
Query(f, o, revset) == [f EXCEPT !.run = EngineCall(f.run, o, revset)]

\* Mutant of collect_on_wc: the bookmarks on `@` are collected but the search
\* goes on.
collect_on_wc_continuing(f, config) ==
    IF Failed(f.run) \/ RevsetWc = {} THEN f
    ELSE [f EXCEPT
            !.bookmarks = collect_bookmarks_for_commit(
                              Unwrap(world.wc), config, f.bookmarks, 0).bookmarks]

\* find_parent_bookmarks, after `@` was evaluated: the bookmarks on `@`.
collect_on_wc(f, config) ==
    IF Failed(f.run) \/ RevsetWc = {} THEN f
    ELSE [f EXCEPT
            !.bookmarks = collect_bookmarks_for_commit(
                              Unwrap(world.wc), config, f.bookmarks, 0).bookmarks,
            !.done = collect_bookmarks_for_commit(
                              Unwrap(world.wc), config, f.bookmarks, 0).found]

\* Mutant of choose_target: finding no target is an error.
choose_target_strict(f, newest) ==
    IF Failed(f.run) \/ f.done THEN f
    ELSE IF Latest(TugCandidates, newest) = <<>>
    THEN [f EXCEPT !.run.err = Some([call |-> "find_parent_bookmarks", code |-> "user"])]
    ELSE [f EXCEPT !.target = Some(Latest(TugCandidates, newest)[1])]

\* find_parent_bookmarks, after the tug revset was evaluated: the target.
choose_target(f, newest) ==
    IF Failed(f.run) \/ f.done THEN f
    ELSE IF Latest(TugCandidates, newest) = <<>> THEN [f EXCEPT !.done = TRUE]
    ELSE [f EXCEPT !.target = Some(Latest(TugCandidates, newest)[1])]

\* find_parent_bookmarks, after `target::@` was evaluated: the bookmarks on
\* the target, at its distance.
collect_on_target(f, config) ==
    IF Failed(f.run) \/ f.done THEN f
    ELSE [f EXCEPT
            !.bookmarks = collect_bookmarks_for_commit(
                              Unwrap(f.target), config, f.bookmarks,
                              Distance(Unwrap(f.target))).bookmarks,
            !.done = TRUE]

\* find_parent_bookmarks, from the tug revset on.
find_on_ancestors(f, o, newest, config) ==
    IF Failed(f.run) \/ f.done THEN f
    ELSE collect_on_target(
            Query(choose_target(
                      Query(f, o, "revset:latest(heads(::@- & bookmarks()))"), newest),
                  o, "revset:target::@"),
            config)

find_parent_bookmarks(r, o, newest, config) ==
    find_on_ancestors(collect_on_wc(Query(Resolving(r), o, "revset:@"), config),
                      o, newest, config)

\* ------------------------------ src/config/bookmarks.rs: Bookmarks::parse

\* Mutant of store_bookmarks: an empty map is not stored.
store_bookmarks_nonempty(f, d) ==
    [run |-> f.run, target |-> f.target,
     data |-> IF Failed(f.run) \/ DOMAIN f.bookmarks = {} THEN d
              ELSE [d EXCEPT !.bookmarks = Some(f.bookmarks)]]

\* Bookmarks::parse after find_parent_bookmarks: the map is stored unless an
\* error is being propagated.
store_bookmarks(f, d) ==
    [run |-> f.run, target |-> f.target,
     data |-> IF Failed(f.run) THEN d ELSE [d EXCEPT !.bookmarks = Some(f.bookmarks)]]

\* Mutant of bookmarks_parse: the bookmarks are resolved again although they
\* are stored.
bookmarks_parse_always(r, d, o, newest, config) ==
    IF Failed(r) THEN [run |-> r, target |-> None, data |-> d]
    ELSE store_bookmarks(
            find_parent_bookmarks(workspace_helper(r, o), o, newest, config.bookmarks), d)

bookmarks_parse(r, d, o, newest, config) ==
    IF Failed(r) \/ IsSome(d.bookmarks) THEN [run |-> r, target |-> None, data |-> d]
    ELSE store_bookmarks(
            find_parent_bookmarks(workspace_helper(r, o), o, newest, config.bookmarks), d)

\* The result of a parse step.
ParseResult(r) == IF Failed(r) THEN Err(Unwrap(r.err)) ELSE Ok(None)

\* ------------------------------------- the resolver on every small world

ExcludeSets == { {}, { <<"a">> }, { <<"a", "*">> } }

BookmarkWorlds ==
    { [wc |-> Some(w), parents |-> g, tree |-> AlternatingTrees,
       local |-> l, remote |-> rm, desc |-> Descriptions,
       prefix_len |-> PrefixLengths] :
        w \in { NumCommits }, g \in Graphs,
        l \in [LocalNames -> OptCommits], rm \in [RemoteSymbols -> OptCommits] }

BookmarkConfigs ==
    { [bookmarks |-> [search_depth |-> d, exclude |-> e]] :
        d \in 1..MaxSearchDepth, e \in ExcludeSets }

BookmarkCalls == { "workspace_helper" } \cup RevsetCalls

BookmarksInit ==
    /\ world \in BookmarkWorlds
    /\ cfg \in BookmarkConfigs
    /\ st = NewState(TRUE)
    /\ data = NewData
    /\ bmCall = NoResolve
    /\ lastCall = NoCall
    /\ returned = [a \in Accessors |-> None]
    /\ PipelineIdle

\* The heads that may carry the newest committer timestamp (any commit when
\* there is no head: `latest` of nothing is nothing).
NewestChoices == IF TugCandidates = {} THEN { NumCommits } ELSE TugCandidates

\* What a Bookmarks::parse run `p` leaves behind.
ParsedBookmarks(p) ==
    /\ st' = p.run.st
    /\ data' = p.data
    /\ bmCall' = [res |-> ParseResult(p.run), calls |-> p.run.calls, target |-> p.target]
    /\ UNCHANGED <<world, cfg, lastCall, returned, pipeVars>>

\* Bookmarks::parse, with the engine's answers: which call fails, if any, and
\* which head carries the newest committer timestamp.
ParseBookmarks ==
    \E o \in OraclesOf(BookmarkCalls), newest \in NewestChoices :
        ParsedBookmarks(bookmarks_parse(Run(st), data, o, newest, cfg))

BookmarksNext == ParseBookmarks

SpecBookmarks == BookmarksInit /\ [][BookmarksNext]_vars

\* ------------------------- the resolver on histories with one more commit

\* Histories long enough for two bookmark-bearing heads at different
\* distances below a merge: the working copy is the last commit, the local
\* bookmarks sit on its ancestors, and nothing is excluded.
MergeCommits == 1..(NumCommits + 1)

MergeWorlds ==
    { [wc |-> Some(NumCommits + 1), parents |-> g,
       tree |-> [c \in MergeCommits |-> "t1"],
       local |-> l, remote |-> NoRemoteBookmarks,
       desc |-> [c \in MergeCommits |-> <<>>], prefix_len |-> PrefixLengths] :
        g \in GraphsOn(NumCommits + 1),
        l \in [LocalNames -> {None} \cup { Some(c) : c \in Commits }] }

MergeInit ==
    /\ world \in MergeWorlds
    /\ cfg = [bookmarks |-> DefaultBookmarkConfig]
    /\ st = NewState(TRUE)
    /\ data = NewData
    /\ bmCall = NoResolve
    /\ lastCall = NoCall
    /\ returned = [a \in Accessors |-> None]
    /\ PipelineIdle

SpecMerge == MergeInit /\ [][BookmarksNext]_vars

\* ------------------------------------------- src/config/util.rs: Style

Attributes ==
    { "bold", "dimmed", "italic", "underline", "blink", "reverse", "hidden",
      "strikethrough" }

\* Style::default()
NoStyle ==
    [color |-> None, bg_color |-> None, attributes |-> [a \in Attributes |-> None]]

Coloured(c) == [NoStyle EXCEPT !.color = Some(c)]

\* Mutant of OptionOr: the second value wins when present.
OptionOr_second(a, b) == IF IsSome(b) THEN b ELSE a

\* Option::or
OptionOr(a, b) == IF IsSome(a) THEN a ELSE b

\* Style::merge_with_fallback
merge_with_fallback(style, fallback) ==
    IF IsNone(fallback) THEN style
    ELSE [color |-> OptionOr(style.color, Unwrap(fallback).color),
          bg_color |-> OptionOr(style.bg_color, Unwrap(fallback).bg_color),
          attributes |-> [a \in Attributes |->
                            OptionOr(style.attributes[a], Unwrap(fallback).attributes[a])]]

\* From<Color> for nu_ansi_term::Color, on the colours the defaults use.
AnsiColor(c) ==
    CASE c = "BrightBlack" -> "DarkGray"
      [] c = "BrightWhite" -> "LightGray"
      [] OTHER -> c

\* Option<bool>::unwrap_or_default
UnwrapOrDefault(o) == IF IsSome(o) THEN Unwrap(o) ELSE FALSE

\* From<&Style> for nu_ansi_term::Style
AnsiStyle(value) ==
    [foreground |-> IF IsSome(value.color) THEN Some(AnsiColor(Unwrap(value.color))) ELSE None,
     background |-> IF IsSome(value.bg_color) THEN Some(AnsiColor(Unwrap(value.bg_color))) ELSE None,
     is |-> [a \in Attributes |-> UnwrapOrDefault(value.attributes[a])],
     prefix_with_reset |-> TRUE]

\* What one print call has written so far, the style emitted last, and
\* whether the call has panicked.
Writer(prev) == [out |-> <<>>, prev |-> prev, panic |-> FALSE]

\* write!(io, "{text}"): an empty text writes nothing.
Write(w, text) ==
    IF w.panic \/ text = <<>> THEN w
    ELSE [w EXCEPT !.out = Append(@, [kind |-> "text", text |-> text])]

\* Mutant of Escape: an escape sequence is written for every style.
Escape_always(prev, s) == << [kind |-> "style", from |-> prev, to |-> s] >>

\* The escape sequence of Style::format: prev.infix(s), which is empty when
\* the two styles are equal, or s.prefix() when there is no previous style
\* (never empty, since prefix_with_reset is set).
Escape(prev, s) ==
    IF prev = Some(s) THEN <<>> ELSE << [kind |-> "style", from |-> prev, to |-> s] >>

\* Mutant of Emit: the style written is not carried to the next call.
Emit_forgetting(w, s) ==
    IF w.panic THEN w ELSE [w EXCEPT !.out = @ \o Escape(w.prev, s)]

\* Style::format followed by the write of Style::print, for the converted style s.
Emit(w, s) ==
    IF w.panic THEN w ELSE [w EXCEPT !.out = @ \o Escape(w.prev, s), !.prev = Some(s)]

\* Style::print
style_print(w, style, fallback) == Emit(w, AnsiStyle(merge_with_fallback(style, fallback)))

\* ------------------------------------- src/main.rs: print_ansi_truncated

\* The one-character ellipsis the code appends.
Ellipsis == << "..." >>

MaybeQuotes(surround_with_quotes) == IF surround_with_quotes THEN << "\"" >> ELSE <<>>

\* The characters that are not one byte long and one column wide: an accented
\* letter (two bytes, one column), an ideograph (three bytes, two columns) and
\* a combining mark (two bytes, no column).
Accented == "<e-acute>"
Ideograph == "<cjk>"
Combining == "<combining>"

\* char::len_utf8
CharBytes(ch) ==
    CASE ch = Accented -> 2 [] ch = Ideograph -> 3 [] ch = Combining -> 2 [] OTHER -> 1

\* UnicodeWidthChar::width
CharWidth(ch) ==
    CASE ch = Accented -> 1 [] ch = Ideograph -> 2 [] ch = Combining -> 0 [] OTHER -> 1

\* str::len, in bytes
RECURSIVE ByteLen(_)
ByteLen(text) == IF text = <<>> THEN 0 ELSE CharBytes(Head(text)) + ByteLen(Tail(text))

\* UnicodeWidthStr::width
RECURSIVE Width(_)
Width(text) == IF text = <<>> THEN 0 ELSE CharWidth(Head(text)) + Width(Tail(text))

\* name.char_indices().map(|(i, _)| i): the byte offset of each character.
CharIndices(name) == [k \in 1..Len(name) |-> ByteLen(SubSeq(name, 1, k - 1))]

\* str::is_char_boundary
IsCharBoundary(name, i) == \E k \in 0..Len(name) : ByteLen(SubSeq(name, 1, k)) = i

\* &name[..i]: the characters that end at or before byte i (the slice panics
\* when i is no character boundary).
BytePrefix(name, i) ==
    SubSeq(name, 1,
           Cardinality({ k \in 1..Len(name) : ByteLen(SubSeq(name, 1, k)) <= i }))

\* .take_while(|i| name[..*i].width() < max_len), as the number of offsets
\* taken from offset k on.
RECURSIVE TakeWhile(_, _, _)
TakeWhile(name, max_len, k) ==
    IF k > Len(name) THEN 0
    ELSE IF Width(BytePrefix(name, CharIndices(name)[k])) < max_len
         THEN 1 + TakeWhile(name, max_len, k + 1)
    ELSE 0

\* Mutant of ansi_max_len: the cut is at byte max_len.
ansi_max_len_bytes(name, max_len) == max_len

\* let ansi_max_len = ...take_while(..).last().unwrap_or_default()
ansi_max_len(name, max_len) ==
    IF TakeWhile(name, max_len, 1) = 0 THEN 0
    ELSE CharIndices(name)[TakeWhile(name, max_len, 1)]

\* &name[..ansi_max_len]
TruncatedAt(name, max_len) == BytePrefix(name, ansi_max_len(name, max_len))

print_ansi_truncated(w, max_length, name, surround_with_quotes) ==
    IF IsSome(max_length) /\ Width(name) > Unwrap(max_length)
    THEN IF IsCharBoundary(name, ansi_max_len(name, Unwrap(max_length)))
         THEN Write(w, MaybeQuotes(surround_with_quotes)
                           \o TruncatedAt(name, Unwrap(max_length)) \o Ellipsis
                           \o MaybeQuotes(surround_with_quotes))
         ELSE [w EXCEPT !.panic = TRUE]
    ELSE Write(w, MaybeQuotes(surround_with_quotes) \o name
                      \o MaybeQuotes(surround_with_quotes))

\* The decimal digits of a usize, as `{behind}` formats it.
DigitChars == << "0", "1", "2", "3", "4", "5", "6", "7", "8", "9" >>
RECURSIVE Decimal(_)
Decimal(n) ==
    IF n < 10 THEN << DigitChars[n + 1] >>
    ELSE Decimal(n \div 10) \o << DigitChars[(n % 10) + 1] >>

\* ------------------------------ src/config/bookmarks.rs: Bookmarks::print

\* fn default_style() of bookmarks.rs
default_style == Coloured("Magenta")
default_max_bookmarks == 1

\* enum IgnoreEmpty
IgnoreEmpty == { "None", "Current", "All" }
default_ignore_empty_commits == "None"

\* impl Default for Bookmarks
DefaultBookmarks ==
    [type |-> "Bookmarks", separator |-> << " " >>, style |-> default_style,
     behind_symbol |-> Some("^"), max_bookmarks |-> Some(default_max_bookmarks),
     max_length |-> None, surround_with_quotes |-> FALSE,
     ignore_empty_commits |-> default_ignore_empty_commits]

\* The order of char on the characters names are made of.
CharRank(ch) ==
    CASE ch = "*" -> 1 [] ch = "?" -> 2 [] ch = "@" -> 3
      [] ch = "a" -> 4 [] ch = "b" -> 5 [] ch = "o" -> 6 [] OTHER -> 7

\* Ord for String
RECURSIVE StrLess(_, _)
StrLess(a, b) ==
    IF b = <<>> THEN FALSE
    ELSE IF a = <<>> THEN TRUE
    ELSE IF Head(a) = Head(b) THEN StrLess(Tail(a), Tail(b))
    ELSE CharRank(Head(a)) < CharRank(Head(b))

\* Mutant of ComesBefore: by name only.
ComesBefore_by_name(bookmarks, a, b) == StrLess(a, b)

\* The iteration order of BTreeMap<usize, BTreeSet<&String>>: by distance,
\* then by name.
ComesBefore(bookmarks, a, b) ==
    \/ bookmarks[a] < bookmarks[b]
    \/ bookmarks[a] = bookmarks[b] /\ StrLess(a, b)

First(bookmarks, names) ==
    CHOOSE a \in names : \A b \in names \ {a} : ComesBefore(bookmarks, a, b)

RECURSIVE Ordered(_, _)
Ordered(bookmarks, names) ==
    IF names = {} THEN <<>>
    ELSE << First(bookmarks, names) >>
            \o Ordered(bookmarks, names \ { First(bookmarks, names) })

\* `{s}{behind}` after a name, when the bookmark is behind the working copy.
print_behind(w, m, behind) ==
    IF behind = 0 THEN w
    ELSE IF IsSome(m.behind_symbol) THEN Write(w, << Unwrap(m.behind_symbol) >> \o Decimal(behind))
    ELSE Write(w, Decimal(behind))

\* Mutant of LimitReached: the limit is reached one name later.
LimitReached_late(m, counter) ==
    IsSome(m.max_bookmarks) /\ counter > Unwrap(m.max_bookmarks)

\* if let Some(number) = self.max_bookmarks && counter >= number
LimitReached(m, counter) ==
    IsSome(m.max_bookmarks) /\ counter >= Unwrap(m.max_bookmarks)

\* The 'outer loop of Bookmarks::print over the ordered names, and the module
\* separator after it.
RECURSIVE print_names(_, _, _, _, _, _)
print_names(w, m, module_separator, bookmarks, names, counter) ==
    IF names = <<>>
    THEN IF counter # 0 THEN Write(w, module_separator) ELSE w
    ELSE IF LimitReached(m, counter)
    THEN Write(w, m.separator \o Ellipsis \o module_separator)
    ELSE print_names(
            print_behind(
                print_ansi_truncated(
                    IF counter > 0 THEN Write(w, m.separator) ELSE w,
                    m.max_length, Head(names), m.surround_with_quotes),
                m, bookmarks[Head(names)]),
            m, module_separator, bookmarks, Tail(names), counter + 1)

\* Bookmarks::print
bookmarks_print(w, m, d, module_separator) ==
    IF IsNone(d.bookmarks) THEN [w EXCEPT !.panic = TRUE]
    ELSE print_names(style_print(w, m.style, Some(default_style)), m, module_separator,
                     Unwrap(d.bookmarks),
                     Ordered(Unwrap(d.bookmarks), DOMAIN Unwrap(d.bookmarks)), 0)

\* ------------------- Bookmarks::parse under each ignore_empty_commits

\* Histories whose commits have a description or none, with one local
\* bookmark, resolved for a Bookmarks module with each setting of
\* ignore_empty_commits.
DescribedWorlds ==
    { [wc |-> Some(NumCommits), parents |-> g, tree |-> AlternatingTrees,
       local |-> [n \in LocalNames |-> IF n = <<"a">> THEN a ELSE None],
       remote |-> NoRemoteBookmarks, desc |-> d, prefix_len |-> PrefixLengths] :
        g \in Graphs, a \in OptCommits, d \in [Commits -> { <<>>, <<"d">> }] }

IgnoreEmptyConfigs ==
    { [bookmarks |-> DefaultBookmarkConfig,
       modules |-> << [DefaultBookmarks EXCEPT !.ignore_empty_commits = i] >>] :
        i \in IgnoreEmpty }

IgnoreEmptyInit ==
    /\ world \in DescribedWorlds
    /\ cfg \in IgnoreEmptyConfigs
    /\ st = NewState(TRUE)
    /\ data = NewData
    /\ bmCall = NoResolve
    /\ lastCall = NoCall
    /\ returned = [a \in Accessors |-> None]
    /\ PipelineIdle

SpecIgnoreEmpty == IgnoreEmptyInit /\ [][BookmarksNext]_vars

\* ------------------------------------------ src/config/commit.rs: Commit

\* fn default_non_unique_style, default_unique_change_style,
\* default_unique_commit_style
default_non_unique_style == Coloured("Black")
default_unique_change_style == Coloured("Magenta")
default_unique_commit_style == Coloured("Blue")
default_max_length == 20

\* impl Default for Commit
DefaultCommit ==
    [type |-> "Commit", previous_message_symbol |-> "v",
     max_length |-> Some(default_max_length), show_previous_if_empty |-> FALSE,
     empty_text |-> << "-" >>, style |-> NoStyle, surround_with_quotes |-> FALSE,
     change |-> None, commit |-> None, non_unique |-> default_non_unique_style]

\* commit.description() and the shortest-prefix lengths, as the engine has them.
DescriptionOf(c) == world.desc[c]

\* commit_id.to_string()[..8]: the first eight characters of an id.
ShortId(kind, c) == << kind, DigitChars[c + 1], "0", "0", "0", "0", "0", "0" >>

\* A module's parse in progress: the State run, the JJData, and the target
\* the resolver chose, if it ran.
Parsing(r, d) == [run |-> r, target |-> None, data |-> d]

\* resolve_desc after `state.parent_commits()?`.
desc_of_parent(p) ==
    IF Failed(p.run) THEN p
    ELSE IF Len(Unwrap(p.run.st.parent_commits)) # 1 THEN p
    ELSE [p EXCEPT !.data.desc = Some(DescriptionOf(Unwrap(p.run.st.parent_commits)[1])),
                   !.data.ahead = TRUE]

\* Mutant of desc_of_commit: the parent's description is taken whenever the
\* commit's own is empty.
desc_of_commit_eager(p, o, m) ==
    IF Failed(p.run) \/ ~Present(p.run.st.commit) THEN p
    ELSE IF DescriptionOf(Unwrap(Unwrap(p.run.st.commit))) = <<>>
    THEN desc_of_parent([p EXCEPT !.run = parent_commits(p.run, o)])
    ELSE [p EXCEPT !.data.desc = Some(DescriptionOf(Unwrap(Unwrap(p.run.st.commit))))]

\* resolve_desc after `state.commit()?`.
desc_of_commit(p, o, m) ==
    IF Failed(p.run) \/ ~Present(p.run.st.commit) THEN p
    ELSE IF DescriptionOf(Unwrap(Unwrap(p.run.st.commit))) = <<>> /\ m.show_previous_if_empty
    THEN desc_of_parent([p EXCEPT !.run = parent_commits(p.run, o)])
    ELSE [p EXCEPT !.data.desc = Some(DescriptionOf(Unwrap(Unwrap(p.run.st.commit))))]

resolve_desc(p, o, m) ==
    IF Failed(p.run) \/ IsSome(p.data.desc) THEN p
    ELSE desc_of_commit([p EXCEPT !.run = commit(p.run, o)], o, m)

\* resolve_commit_id / resolve_change_id after `state.repo()?` and
\* `state.commit()?`: the id and its shortest unique prefix length.
id_of_commit(p, o, field, call) ==
    IF Failed(p.run) \/ ~Present(p.run.st.commit) THEN p
    ELSE IF Failed(EngineCall(p.run, o, call)) THEN [p EXCEPT !.run = EngineCall(p.run, o, call)]
    ELSE [p EXCEPT !.run = EngineCall(p.run, o, call),
                   !.data[field] = Some([id |-> Unwrap(Unwrap(p.run.st.commit)),
                                         idx |-> world.prefix_len[field]])]

resolve_commit_id(p, o, m) ==
    IF Failed(p.run) \/ IsNone(m.commit) \/ IsSome(p.data.commit_id) THEN p
    ELSE id_of_commit([p EXCEPT !.run = commit(repo(p.run, o), o)], o,
                      "commit_id", "shortest_commit_prefix_len")

resolve_change_id(p, o, m) ==
    IF Failed(p.run) \/ IsNone(m.change) \/ IsSome(p.data.change_id) THEN p
    ELSE id_of_commit([p EXCEPT !.run = commit(repo(p.run, o), o)], o,
                      "change_id", "shortest_change_prefix_len")

\* Commit::parse
commit_parse(r, d, o, m) ==
    resolve_change_id(resolve_commit_id(resolve_desc(Parsing(r, d), o, m), o, m), o, m)

\* str::split_at and the two writes around the non-unique style; split_at
\* panics when idx is past the end.
print_split(w, m, text, idx) ==
    IF w.panic THEN w
    ELSE IF idx > Len(text) THEN [w EXCEPT !.panic = TRUE]
    ELSE Write(style_print(Write(w, SubSeq(text, 1, idx)),
                           m.non_unique, Some(default_non_unique_style)),
               SubSeq(text, idx + 1, Len(text)))

ShowsChange(m, d) == IsSome(m.change) /\ IsSome(d.change_id)
ShowsCommit(m, d) == IsSome(m.commit) /\ IsSome(d.commit_id)

print_change_id(w, m, d) ==
    IF ~ShowsChange(m, d) THEN w
    ELSE print_split(style_print(w, Unwrap(m.change), Some(default_unique_change_style)),
                     m, ShortId("k", Unwrap(d.change_id).id), Unwrap(d.change_id).idx)

print_commit_id(w, m, d) ==
    IF w.panic \/ ~ShowsCommit(m, d) THEN w
    ELSE print_split(style_print(IF ShowsChange(m, d) THEN Write(w, << " " >>) ELSE w,
                                 Unwrap(m.commit), Some(default_unique_commit_style)),
                     m, ShortId("c", Unwrap(d.commit_id).id), Unwrap(d.commit_id).idx)

\* desc.split_once(['\r', '\n']): the text before the first line break.
RECURSIVE FirstLine(_)
FirstLine(desc) ==
    IF desc = <<>> \/ Head(desc) \in { "\n", "\r" } THEN <<>>
    ELSE << Head(desc) >> \o FirstLine(Tail(desc))

print_ahead(w, m, d) ==
    IF d.ahead THEN Write(w, << m.previous_message_symbol >>) ELSE w

print_desc(w, m, d, module_separator) ==
    IF w.panic \/ IsNone(d.desc) THEN w
    ELSE Write(
            print_ahead(
                print_ansi_truncated(
                    style_print(IF ShowsChange(m, d) \/ ShowsCommit(m, d)
                                THEN Write(w, << " " >>) ELSE w,
                                m.style, None),
                    m.max_length,
                    IF Unwrap(d.desc) # <<>> THEN FirstLine(Unwrap(d.desc)) ELSE m.empty_text,
                    m.surround_with_quotes),
                m, d),
            module_separator)

\* Commit::print
commit_print(w, m, d, module_separator) ==
    print_desc(print_commit_id(print_change_id(w, m, d), m, d), m, d, module_separator)

\* --------------- the Symbol, State and Metrics modules (src/config/symbol.rs,
\* state.rs and metrics.rs): the same parse/print contract as the two above.

DefaultSymbol == [type |-> "Symbol", symbol |-> << "jj" >>, style |-> Coloured("Blue")]
DefaultState == [type |-> "State", empty_text |-> << "(EMPTY)" >>, style |-> Coloured("Yellow")]
DefaultMetrics == [type |-> "Metrics", style |-> Coloured("Green")]

symbol_parse(r, d) == Parsing(r, d)

symbol_print(w, m, module_separator) ==
    Write(Write(style_print(w, m.style, None), m.symbol), module_separator)

\* The State module's `empty` warning comes from State::commit_is_empty.
store_warning(e, d) ==
    [run |-> e.run, target |-> None,
     data |-> IF e.res.ok THEN [d EXCEPT !.warnings.empty = e.res.v] ELSE d]

state_parse(r, d, o) ==
    IF Failed(r) \/ IsSome(d.warnings.empty) THEN Parsing(r, d)
    ELSE store_warning(commit_is_empty(r, o), d)

state_print(w, m, d, module_separator) ==
    IF d.warnings.empty = Some(TRUE)
    THEN Write(Write(style_print(w, m.style, None), m.empty_text), module_separator)
    ELSE w

\* The Metrics module's counters come from State::diff_stats.
store_diff(e, d) ==
    [run |-> e.run, target |-> None,
     data |-> IF e.res.ok THEN [d EXCEPT !.diff = e.res.v] ELSE d]

metrics_parse(r, d, o) ==
    IF Failed(r) \/ IsSome(d.diff) THEN Parsing(r, d)
    ELSE store_diff(diff_stats(r, o), d)

\* CommitDiff::is_empty: no file changed.
DiffIsEmpty(diff) == diff.from = diff.to

metrics_print(w, m, d, module_separator) ==
    IF IsSome(d.diff) /\ ~DiffIsEmpty(Unwrap(d.diff))
    THEN Write(Write(style_print(w, m.style, None), << "[", "+", "-", "]" >>), module_separator)
    ELSE w

\* ----------------------------- src/config.rs: Config::print and the watchdog

MaxModules == 2

\* One module's parse, by its kind.
module_parse(m, r, d, o, newest, config) ==
    CASE m.type = "Bookmarks" -> bookmarks_parse(r, d, o, newest, config)
      [] m.type = "Commit" -> commit_parse(r, d, o, m)
      [] m.type = "State" -> state_parse(r, d, o)
      [] m.type = "Metrics" -> metrics_parse(r, d, o)
      [] OTHER -> symbol_parse(r, d)

\* One module's print, by its kind.
module_print(m, w, d, module_separator) ==
    CASE m.type = "Bookmarks" -> bookmarks_print(w, m, d, module_separator)
      [] m.type = "Commit" -> commit_print(w, m, d, module_separator)
      [] m.type = "State" -> state_print(w, m, d, module_separator)
      [] m.type = "Metrics" -> metrics_print(w, m, d, module_separator)
      [] OTHER -> symbol_print(w, m, module_separator)

\* The writes of one thread for one module (0: not a module's render).
Tagged(tokens, thread, i) ==
    [k \in DOMAIN tokens |-> [by |-> thread, mod |-> i, token |-> tokens[k]]]

\* fn default_modules
default_modules ==
    << DefaultSymbol, DefaultBookmarks, DefaultCommit, DefaultState, DefaultMetrics >>

\* fn default_separator of config.rs
default_separator == << " " >>

\* A Commit module that shows the parent's description and both ids.
VerboseCommit ==
    [DefaultCommit EXCEPT !.show_previous_if_empty = TRUE,
                          !.change = Some(NoStyle), !.commit = Some(NoStyle)]

ModuleChoices ==
    { DefaultSymbol, DefaultBookmarks, DefaultCommit, VerboseCommit, DefaultState,
      DefaultMetrics }

ModuleLists ==
    { default_modules } \cup UNION { [1..n -> ModuleChoices] : n \in 1..MaxModules }

Configs ==
    { [modules |-> ms, module_separator |-> default_separator, timeout |-> t,
       bookmarks |-> DefaultBookmarkConfig, reset_color |-> rc] :
        ms \in ModuleLists, t \in { None, Some(1) }, rc \in BOOLEAN }

\* bool::default()
BoolDefault == FALSE

\* fn default_reset_color
default_reset_color == TRUE

\* impl Default for Config
ConfigDefault ==
    [modules |-> default_modules, module_separator |-> default_separator,
     timeout |-> None, bookmarks |-> DefaultBookmarkConfig, reset_color |-> BoolDefault]

ConfigFields == { "modules", "module_separator", "timeout", "bookmarks", "reset_color" }

\* #[derive(Serialize)]: the keys of a configuration source made of a Config;
\* an absent timeout has no key.
Serialize(c) ==
    [k \in { f \in ConfigFields : f # "timeout" \/ IsSome(c.timeout) } |-> c[k]]

\* The #[serde(default ..)] of each field of Config and GlobalConfig.
SerdeDefault(k) ==
    CASE k = "modules" -> default_modules
      [] k = "module_separator" -> default_separator
      [] k = "timeout" -> None
      [] k = "bookmarks" -> DefaultBookmarkConfig
      [] OTHER -> default_reset_color

\* #[derive(Deserialize)]: a key of the source, or the field's default.
Deserialize(src) ==
    [k \in ConfigFields |-> IF k \in DOMAIN src THEN src[k] ELSE SerdeDefault(k)]

\* A configuration file without any key.
EmptyFile == [k \in {} |-> None]

\* print_prompt: the configuration it renders with, from the configuration
\* file when there is one and from Config::default() otherwise.
print_prompt_config(file) ==
    Deserialize(IF IsSome(file) THEN Unwrap(file) ELSE Serialize(ConfigDefault))

\* The repositories the pipeline runs on: no working-copy commit; an
\* undescribed working copy two steps ahead of bookmark a; a described
\* working copy carrying both bookmarks.
PipelineWorlds ==
    { CacheWorld(None, LinearGraph),
      [CacheWorld(Some(NumCommits), LinearGraph) EXCEPT
          !.local = [NoBookmarks EXCEPT ![<< "a" >>] = Some(NumCommits - 2)]],
      [CacheWorld(Some(NumCommits), LinearGraph) EXCEPT
          !.local = [n \in LocalNames |-> Some(NumCommits)],
          !.desc = [Descriptions EXCEPT ![NumCommits] = << "f", "i", "x", "\n", "x" >>]] }

PipelineCalls ==
    FallibleCalls \cup RevsetCalls
        \cup { "shortest_commit_prefix_len", "shortest_change_prefix_len" }

Init ==
    /\ world \in PipelineWorlds
    /\ cfg \in Configs \cup { print_prompt_config(None), print_prompt_config(Some(EmptyFile)) }
    /\ st = NewState(TRUE)
    /\ data = NewData
    /\ bmCall = NoResolve
    /\ lastCall = NoCall
    /\ returned = [a \in Accessors |-> None]
    /\ pc = [i |-> 0, phase |-> "start"]
    /\ result = None
    /\ out = <<>>
    /\ prev_style = None
    /\ wd = "unspawned"
    /\ done = FALSE
    /\ exited = None
    /\ events = <<>>
    /\ wokeAt = None

Running == exited = None

\* The loop of Config::print: where the primary thread goes after module i.
NextIndex_skipping(i) == i + 2

NextIndex(i) == i + 1

AtModule(i) ==
    IF i <= Len(cfg.modules) THEN [i |-> i, phase |-> "parse"]
    ELSE [i |-> 0, phase |-> "final"]

\* Lines 106-121: the flag is created, the watchdog thread is spawned when a
\* timeout is configured, and the loop is entered.
Start ==
    /\ Running
    /\ pc.phase = "start"
    /\ done' = FALSE
    /\ wd' = IF IsSome(cfg.timeout) THEN "sleeping" ELSE wd
    /\ pc' = AtModule(1)
    /\ UNCHANGED <<world, st, lastCall, returned, cfg, data, bmCall, result, out,
                   prev_style, exited, events, wokeAt>>

\* `module.parse(..)?` with the error ignored: a mutant of AfterParse.
AfterParse_ignoring(i, r) == [i |-> i, phase |-> "render"]

\* `module.parse(..)?`: on to the module's print, or out of Config::print.
AfterParse(i, r) ==
    IF Failed(r) THEN [i |-> i, phase |-> "returned"] ELSE [i |-> i, phase |-> "render"]

\* What a parse run `p` of module i leaves behind.
Parsed(i, p) ==
    /\ st' = p.run.st
    /\ data' = p.data
    /\ events' = Append(events, [op |-> "parse", i |-> i, res |-> ParseResult(p.run),
                                 wrote |-> <<>>, calls |-> p.run.calls])
    /\ pc' = AfterParse(i, p.run)
    /\ result' = IF AfterParse(i, p.run).phase = "returned"
                 THEN Some(ParseResult(p.run)) ELSE result
    /\ UNCHANGED <<world, lastCall, returned, cfg, bmCall, out, prev_style, wd, done,
                   exited, wokeAt>>

\* The parse of the module the loop is at, with the engine's answers.
Parse ==
    /\ Running
    /\ pc.phase = "parse"
    /\ \E o \in OraclesOf(PipelineCalls), newest \in NewestChoices :
          Parsed(pc.i, module_parse(cfg.modules[pc.i], Run(st), data, o, newest, cfg))

\* An engine call of the parse never returns.
Hang ==
    /\ Running
    /\ pc.phase = "parse"
    /\ pc' = [pc EXCEPT !.phase = "hung"]
    /\ UNCHANGED <<world, st, lastCall, returned, cfg, data, bmCall, result, out,
                   prev_style, wd, done, exited, events, wokeAt>>

\* What a print `w` of module i leaves behind; a panic ends the process.
Printed(i, w) ==
    /\ out' = out \o Tagged(w.out, "primary", i)
    /\ prev_style' = w.prev
    /\ events' = Append(events, [op |-> "render", i |-> i, res |-> Ok(None),
                                 wrote |-> w.out, calls |-> <<>>])
    /\ pc' = IF w.panic THEN [i |-> i, phase |-> "panicked"] ELSE AtModule(NextIndex(i))
    /\ exited' = IF w.panic THEN Some("panic") ELSE exited
    /\ UNCHANGED <<world, st, lastCall, returned, cfg, data, bmCall, result, wd, done,
                   wokeAt>>

\* The print of the module the loop is at, under `io.lock()`.
Render ==
    /\ Running
    /\ pc.phase = "render"
    /\ Printed(pc.i, module_print(cfg.modules[pc.i], Writer(prev_style), data,
                                  cfg.module_separator))

\* Mutant of final_reset: nothing is written after the loop.
final_reset_skipped(w) == w

\* Lines 176-179: the final reset, when configured, and `Ok(())`.
final_reset(w) == IF cfg.reset_color THEN style_print(w, NoStyle, None) ELSE w

Finish ==
    /\ Running
    /\ pc.phase = "final"
    /\ out' = out \o Tagged(final_reset(Writer(prev_style)).out, "primary", 0)
    /\ prev_style' = final_reset(Writer(prev_style)).prev
    /\ result' = Some(Ok(None))
    /\ pc' = [i |-> 0, phase |-> "returned"]
    /\ UNCHANGED <<world, st, lastCall, returned, cfg, data, bmCall, wd, done, exited,
                   events, wokeAt>>

\* Config::print has returned; print_prompt, the command and main return and
\* the process ends.
MainReturns ==
    /\ Running
    /\ pc.phase = "returned"
    /\ exited' = Some("main")
    /\ UNCHANGED <<world, st, lastCall, returned, cfg, data, bmCall, pc, result, out,
                   prev_style, wd, done, events, wokeAt>>

\* `!done2.load(Relaxed)`, inverted: a mutant of WatchdogFires.
WatchdogFires_inverted == done

\* `!done2.load(Relaxed)`
WatchdogFires == ~done

\* The watchdog's sleep ends and it reads the flag.
WatchdogWakes ==
    /\ Running
    /\ wd = "sleeping"
    /\ wd' = IF WatchdogFires THEN "fired" ELSE "finished"
    /\ wokeAt' = Some(pc.phase)
    /\ UNCHANGED <<world, st, lastCall, returned, cfg, data, bmCall, pc, result, out,
                   prev_style, done, exited, events>>

\* Mutant of watchdog_reset: the reset starts from the style the primary
\* thread carries.
watchdog_reset_carrying == style_print(Writer(prev_style), NoStyle, None)

\* `Style::default().print(&mut stdout(), None, &mut None)`
watchdog_reset == style_print(Writer(None), NoStyle, None)

WatchdogWritesReset ==
    /\ Running
    /\ wd = "fired"
    /\ out' = out \o Tagged(watchdog_reset.out, "watchdog", 0)
    /\ wd' = "reset"
    /\ UNCHANGED <<world, st, lastCall, returned, cfg, data, bmCall, pc, result,
                   prev_style, done, exited, events, wokeAt>>

\* `print!(" ")`
watchdog_space == Write(Writer(None), << " " >>)

WatchdogWritesSpace ==
    /\ Running
    /\ wd = "reset"
    /\ out' = out \o Tagged(watchdog_space.out, "watchdog", 0)
    /\ wd' = "space"
    /\ UNCHANGED <<world, st, lastCall, returned, cfg, data, bmCall, pc, result,
                   prev_style, done, exited, events, wokeAt>>

\* `stdout().flush(); std::process::exit(0)`
WatchdogExits ==
    /\ Running
    /\ wd = "space"
    /\ wd' = "exited"
    /\ exited' = Some("watchdog")
    /\ UNCHANGED <<world, st, lastCall, returned, cfg, data, bmCall, pc, result, out,
                   prev_style, done, events, wokeAt>>

Next ==
    \/ Start
    \/ Parse
    \/ Hang
    \/ Render
    \/ Finish
    \/ MainReturns
    \/ WatchdogWakes
    \/ WatchdogWritesReset
    \/ WatchdogWritesSpace
    \/ WatchdogExits

Spec == Init /\ [][Next]_vars

\* The watchdog thread's steps.
WatchdogStep ==
    WatchdogWakes \/ WatchdogWritesReset \/ WatchdogWritesSpace \/ WatchdogExits

\* The watchdog thread is scheduled: its sleep ends and each of its writes
\* gets the stream; and the process ends once Config::print has returned.
\* The primary thread's parse steps wait on the engine, for ever if need be.
Fairness == WF_vars(WatchdogStep) /\ WF_vars(MainReturns)

\* The pipeline under a configured timeout, on the default module list and on
\* the short lists of the modules that query the engine.
WatchdogConfigs ==
    { c \in Configs :
        /\ IsSome(c.timeout)
        /\ c.reset_color
        /\ c.modules \in { default_modules, << DefaultBookmarks >>, << VerboseCommit >> } }

WatchdogInit == Init /\ cfg \in WatchdogConfigs

FairSpec == WatchdogInit /\ [][Next]_vars /\ Fairness

\* ------------------------------------ Bookmarks::print on every small map

MaxDistance == 2
MaxBookmarks == 3

PrintNames == { <<"a">>, <<"a", "@", "o">>, <<"b">> }

\* The resolved maps: some of the names, each at some distance.
PrintMaps ==
    UNION { [names -> 0..MaxDistance] : names \in SUBSET PrintNames }

PrintConfigs ==
    { [bookmarks |-> DefaultBookmarkConfig, module_separator |-> << " " >>,
       modules |-> << [DefaultBookmarks EXCEPT !.max_bookmarks = mb] >>] :
        mb \in {None} \cup { Some(k) : k \in 0..MaxBookmarks } }

PrintInit ==
    /\ world \in { CacheWorld(NumCommits, LinearGraph) }
    /\ cfg \in PrintConfigs
    /\ st = NewState(TRUE)
    /\ data \in { [NewData EXCEPT !.bookmarks = Some(b)] : b \in PrintMaps }
    /\ bmCall = NoResolve
    /\ lastCall = NoCall
    /\ returned = [a \in Accessors |-> None]
    /\ pc = [i |-> 1, phase |-> "render"]
    /\ result = None
    /\ out = <<>>
    /\ prev_style \in { None, Some(AnsiStyle(default_style)) }
    /\ wd = "unspawned"
    /\ done = FALSE
    /\ exited = None
    /\ events = <<>>
    /\ wokeAt = None

\* What a Bookmarks::print that ends with writer w leaves behind.
PrintedBookmarks(w) ==
    /\ out' = out \o Tagged(w.out, "primary", 1)
    /\ prev_style' = w.prev
    /\ pc' = [i |-> 1, phase |-> "returned"]
    /\ UNCHANGED <<world, st, lastCall, returned, cfg, data, bmCall,
                   result, wd, done, exited, events, wokeAt>>

\* Bookmarks::print of the only module, on the resolved map.
PrintBookmarks ==
    /\ pc.phase = "render"
    /\ PrintedBookmarks(bookmarks_print(Writer(prev_style), cfg.modules[1], data,
                                        cfg.module_separator))

PrintNext == PrintBookmarks

SpecPrint == PrintInit /\ [][PrintNext]_vars

\* --------------------------------- Style::merge_with_fallback on any styles

MaxStyledFields == 2

StyleFields == { "color", "bg_color" } \cup Attributes

\* The two values a field is given: two colours, or the two booleans.
FieldValue(f, k) ==
    IF f \in Attributes THEN Some(k = 1)
    ELSE Some(IF k = 1 THEN "Red" ELSE "Blue")

\* The style that has the fields of v, with the values v names, and no other.
StyleOf(v) ==
    [color |-> IF "color" \in DOMAIN v THEN FieldValue("color", v["color"]) ELSE None,
     bg_color |-> IF "bg_color" \in DOMAIN v THEN FieldValue("bg_color", v["bg_color"])
                  ELSE None,
     attributes |-> [a \in Attributes |->
                        IF a \in DOMAIN v THEN FieldValue(a, v[a]) ELSE None]]

\* The styles with at most MaxStyledFields fields present.
Styles ==
    { StyleOf(v) :
        v \in UNION { [F -> 1..2] :
                        F \in { G \in SUBSET StyleFields :
                                  Cardinality(G) <= MaxStyledFields } } }

StyleInit ==
    /\ world \in { CacheWorld(NumCommits, LinearGraph) }
    /\ cfg \in [style : Styles, fallback : Styles]
    /\ st = NewState(TRUE)
    /\ data = NewData
    /\ bmCall = NoResolve
    /\ lastCall = NoCall
    /\ returned = [a \in Accessors |-> None]
    /\ PipelineIdle

\* style.merge_with_fallback(Some(fallback)), and the merge of its result
\* with the same fallback.
MergeStyles ==
    /\ pc.phase = "idle"
    /\ lastCall' = [acc |-> "merge_with_fallback", calls |-> <<>>,
                    res |-> Ok(Some(merge_with_fallback(cfg.style, Some(cfg.fallback))))]
    /\ result' = Some(Ok(Some(merge_with_fallback(
                                  merge_with_fallback(cfg.style, Some(cfg.fallback)),
                                  Some(cfg.fallback)))))
    /\ pc' = [i |-> 0, phase |-> "returned"]
    /\ UNCHANGED <<world, st, returned, cfg, data, bmCall, out, prev_style, wd, done,
                   exited, events, wokeAt>>

StyleNext == MergeStyles

SpecStyle == StyleInit /\ [][StyleNext]_vars

\* ------------------------------------ Style::print, call after call

MaxFormats == 2

\* The styles of the calls: a colour or none, bold set, cleared or absent.
FormatStyles ==
    { StyleOf(v) : v \in UNION { [F -> 1..2] : F \in SUBSET { "color", "bold" } } }

FormatInit ==
    /\ world \in { CacheWorld(NumCommits, LinearGraph) }
    /\ cfg \in { ConfigDefault }
    /\ st = NewState(TRUE)
    /\ data = NewData
    /\ bmCall = NoResolve
    /\ lastCall = NoCall
    /\ returned = [a \in Accessors |-> None]
    /\ PipelineIdle

\* What a Style::print of `style` with `fallback` that ends with writer w
\* leaves behind: the output, the carried style, and a record of the call.
Formatted(style, fallback, w) ==
    /\ out' = out \o Tagged(w.out, "primary", 0)
    /\ prev_style' = w.prev
    /\ events' = Append(events, [op |-> "format", style |-> style, fallback |-> fallback,
                                 before |-> prev_style, wrote |-> w.out,
                                 after |-> w.prev])
    /\ UNCHANGED <<world, st, lastCall, returned, cfg, data, bmCall, pc, result, wd,
                   done, exited, wokeAt>>

\* style.print(io, fallback, &mut prev_style), for any style and fallback.
Format ==
    /\ Len(events) < MaxFormats
    /\ \E style \in FormatStyles, fallback \in {None} \cup { Some(f) : f \in FormatStyles } :
          Formatted(style, fallback, style_print(Writer(prev_style), style, fallback))

FormatNext == Format

SpecFormat == FormatInit /\ [][FormatNext]_vars

\* ------------------------------------ print_ansi_truncated on any text

MaxTextLen == 3
MaxLength == 4

\* The texts: up to MaxTextLen characters, single-byte or not, narrow or not.
TextChars == { "a", Accented, Ideograph, Combining }
Texts == UNION { [1..n -> TextChars] : n \in 0..MaxTextLen }

TruncateInit ==
    /\ world \in { CacheWorld(NumCommits, LinearGraph) }
    /\ cfg \in [name : Texts, max_length : {None} \cup { Some(k) : k \in 0..MaxLength },
                 surround_with_quotes : BOOLEAN]
    /\ st = NewState(TRUE)
    /\ data = NewData
    /\ bmCall = NoResolve
    /\ lastCall = NoCall
    /\ returned = [a \in Accessors |-> None]
    /\ PipelineIdle

\* What a print_ansi_truncated that ends with writer w leaves behind; a
\* panic ends the process.
Truncated(w) ==
    /\ out' = out \o Tagged(w.out, "primary", 0)
    /\ pc' = [i |-> 0, phase |-> IF w.panic THEN "panicked" ELSE "returned"]
    /\ exited' = IF w.panic THEN Some("panic") ELSE exited
    /\ UNCHANGED <<world, st, lastCall, returned, cfg, data, bmCall, result, prev_style,
                   wd, done, events, wokeAt>>

\* print_ansi_truncated(max_length, io, name, surround_with_quotes)
Truncate ==
    /\ pc.phase = "idle"
    /\ Truncated(print_ansi_truncated(Writer(None), cfg.max_length, cfg.name,
                                      cfg.surround_with_quotes))

TruncateNext == Truncate

SpecTruncate == TruncateInit /\ [][TruncateNext]_vars

\* ------------------- Commit::print under each shortest-unique-prefix length

\* The longest shortest-unique-prefix length the engine returns here; an id
\* is longer than the eight characters Commit::print keeps of it.
MaxPrefixLen == 10

\* A Commit module that shows the commit id only.
CommitIdOnly == [DefaultCommit EXCEPT !.commit = Some(NoStyle)]

\* A described working copy whose ids need every number of characters to be
\* unique.
IdWorlds ==
    { [CacheWorld(Some(NumCommits), LinearGraph) EXCEPT
          !.desc = [Descriptions EXCEPT ![NumCommits] = << "f", "i", "x" >>],
          !.prefix_len = [commit_id |-> i, change_id |-> j]] :
        i \in 1..MaxPrefixLen, j \in 1..MaxPrefixLen }

IdInit ==
    /\ world \in IdWorlds
    /\ cfg \in { [modules |-> ms, module_separator |-> default_separator,
                   timeout |-> Some(1), bookmarks |-> DefaultBookmarkConfig,
                   reset_color |-> TRUE] :
                    ms \in { << VerboseCommit >>, << CommitIdOnly >> } }
    /\ st = NewState(TRUE)
    /\ data = NewData
    /\ bmCall = NoResolve
    /\ lastCall = NoCall
    /\ returned = [a \in Accessors |-> None]
    /\ pc = [i |-> 0, phase |-> "start"]
    /\ result = None
    /\ out = <<>>
    /\ prev_style = None
    /\ wd = "unspawned"
    /\ done = FALSE
    /\ exited = None
    /\ events = <<>>
    /\ wokeAt = None

SpecIds == IdInit /\ [][Next]_vars

\* ------------------------------------------------ claims about the cache

\* The engine calls that fill each accessor's slot.
SlotCalls(a) ==
    CASE a = "workspace_helper" -> {"workspace_helper", "workspace_helper_no_snapshot"}
      [] a = "repo" -> {}
      [] a = "commit_id" -> {"get_wc_commit_id"}
      [] a = "commit" -> {"get_commit"}
      [] a = "parent_commits" -> {"parents"}
      [] a = "tree" -> {"tree"}
      [] a = "parent_tree" -> {"parent_tree"}

CallsMade(call) == { call.calls[i].call : i \in DOMAIN call.calls }
FailedCalls(call) == { call.calls[i].call : i \in { j \in DOMAIN call.calls : ~call.calls[j].ok } }

\* C1: once a call of an accessor has returned successfully, every later
\* call of it returns the same value without any engine call, and no later
\* call of any accessor makes the engine call that fills its slot again.
C1_AccessorMemoized ==
    [][ \A a \in Accessors :
            IsSome(returned[a]) =>
                /\ SlotCalls(a) \cap CallsMade(lastCall') = {}
                /\ lastCall'.acc = a =>
                    /\ lastCall'.res = Ok(Unwrap(returned[a]))
                    /\ lastCall'.calls = <<>> ]_vars

\* C1 witness: commit() is called again after it cached "absent", and after
\* other accessors were called in between.
C1_Witness ==
    /\ lastCall.acc = "commit"
    /\ lastCall.calls = <<>>
    /\ lastCall.res = Ok(None)
    /\ returned["commit"] = Some(None)
    /\ IsSome(returned["tree"])
    /\ IsSome(returned["parent_commits"])

\* C6: an engine call that failed inside an accessor, diff_stats or
\* commit_is_empty is what the call returns: Err with that call's error, never
\* Ok.
C6_EngineErrorPropagates ==
    \A k \in FailedCalls(lastCall) : lastCall.res = Err(EngineError(k))

\* C6 witness: diff_stats returned the error of a failed get_commit, three
\* calls down (load_parent_tree, commit, load_commit).
C6_Witness ==
    /\ lastCall.acc = "diff_stats"
    /\ FailedCalls(lastCall) = {"get_commit"}
    /\ lastCall.res = Err(EngineError("get_commit"))

\* C7: on a loaded workspace with no working-copy commit, commit_id, commit,
\* tree and parent_tree return Ok(absent) and parent_commits returns Ok(empty),
\* and no commit, parents or tree is asked of the engine.
C7_AbsentIsNotAnError ==
    (world.wc = None /\ IsSome(st.workspace_helper)) =>
        /\ lastCall.acc \in {"commit_id", "commit", "tree", "parent_tree"} =>
                lastCall.res = Ok(None)
        /\ lastCall.acc = "parent_commits" => lastCall.res = Ok(<<>>)
        /\ CallsMade(lastCall) \cap {"get_commit", "parents", "tree", "parent_tree"} = {}

\* C7 witness: parent_tree() on a fresh cache of a workspace without a
\* working-copy commit: the workspace is loaded, the commit id read, and the
\* result is absent.
C7_Witness ==
    /\ world.wc = None
    /\ lastCall.acc = "parent_tree"
    /\ lastCall.res = Ok(None)
    /\ "get_wc_commit_id" \in CallsMade(lastCall)

\* C8: with the tree or the parent tree absent, diff_stats returns Ok(no
\* diff) without asking the engine for copy records or a diff, and
\* commit_is_empty returns Ok(unknown).
C8_NoDiffWithoutTrees ==
    (st.tree = Some(None) \/ st.parent_tree = Some(None)) =>
        /\ lastCall.acc = "diff_stats" =>
            /\ lastCall.res = Ok(None)
            /\ CallsMade(lastCall)
                 \cap {"get_copy_records", "add_records", "diff_stats_calculate"} = {}
        /\ lastCall.acc = "commit_is_empty" => lastCall.res = Ok(None)

\* C8 witness: commit_is_empty() returned "unknown" on a workspace without a
\* working-copy commit.
C8_Witness ==
    /\ lastCall.acc = "commit_is_empty"
    /\ st.tree = Some(None)
    /\ st.parent_tree = Some(None)
    /\ lastCall.res = Ok(None)

\* The slots an accessor's load_* fills before its own.
Dependencies(a) ==
    CASE a = "workspace_helper" -> {}
      [] a = "repo" -> {"workspace_helper"}
      [] a = "commit_id" -> {"repo", "workspace_helper"}
      [] a = "commit" -> {"commit_id"}
      [] a = "parent_commits" -> {"commit"}
      [] a = "tree" -> {"commit"}
      [] a = "parent_tree" -> {"commit"}

\* C29: in every reachable state a computed commit_id implies computed repo
\* and workspace, a computed commit implies a computed commit_id, and each of
\* parent_commits, tree and parent_tree computed implies a computed commit;
\* so no accessor reads a dependency slot that is still not computed: none
\* ends in its unreachable!().
C29_DependencyClosure ==
    /\ \A a \in Accessors :
          IsSome(st[a]) => \A d \in Dependencies(a) : IsSome(st[d])
    /\ lastCall.res.ok \/ lastCall.res.e.code # "panic"

\* C29 witness: tree() alone was called, on a working copy that exists; its
\* slot and all the slots below it are computed, none of them by a call of
\* its own.
C29_Witness ==
    /\ lastCall.acc = "tree"
    /\ Present(st.tree)
    /\ \A a \in {"commit", "commit_id", "repo", "workspace_helper"} :
          IsSome(st[a]) /\ returned[a] = None

\* C30: when the engine call that fills an accessor's slot fails, the slot
\* stays not computed, every slot that was computed before the call keeps its
\* value and the accessor's dependencies are computed after it; when the same
\* accessor is called next, the engine call is made again.
C30_ErrorIsNotCached ==
    [][ /\ \A a \in Accessors :
              /\ SlotCalls(a) \cap FailedCalls(lastCall') # {} => st'[a] = None
              /\ IsSome(st[a]) => st'[a] = st[a]
              /\ (lastCall'.acc = a /\ SlotCalls(a) \cap FailedCalls(lastCall') # {}) =>
                    \A d \in Dependencies(a) : IsSome(st'[d])
        /\ \A a \in Accessors :
              (/\ lastCall.acc = a
               /\ SlotCalls(a) \cap FailedCalls(lastCall) # {}
               /\ lastCall'.acc = a) =>
                    SlotCalls(a) \cap CallsMade(lastCall') # {} ]_vars

\* C30 witness: parent_commits() on a fresh cache failed on reading the
\* parents: its slot is not computed, and the commit it looked up on the way
\* is.
C30_Witness ==
    /\ lastCall.acc = "parent_commits"
    /\ lastCall.res = Err(EngineError("parents"))
    /\ "get_commit" \in CallsMade(lastCall)
    /\ st.parent_commits = None
    /\ Present(st.commit)

\* --------------------------------------------- claims about the resolver

\* A resolution ran to its end in the last Bookmarks::parse (the parse was
\* not answered from data.bookmarks).
Resolved == bmCall.res.ok /\ "revset:@" \in CallsMade(bmCall)

\* The least number of parent steps that lead from commit `from` back to its
\* ancestor c.
RECURSIVE StepsBack(_, _)
StepsBack(from, c) ==
    IF from = c THEN 0
    ELSE LET via == { StepsBack(p, c) : p \in { q \in world.parents[from] : c \in Ancestors(q) } }
         IN  1 + CHOOSE n \in via : \A m \in via : n <= m

\* C9: a bookmark that is returned sits on a commit at most
\* search_depth parent steps back from the working-copy commit.
C9_WithinSearchDepth ==
    (Resolved /\ IsSome(bmCall.target) /\ Unwrap(data.bookmarks) # EmptyMap) =>
        StepsBack(Unwrap(world.wc), Unwrap(bmCall.target)) <= cfg.bookmarks.search_depth

\* C10: bookmarks found on the working-copy commit have distance
\* 0, and bookmarks found on a direct parent of it have distance 1, in every
\* commit graph.
C10_DirectParentAlwaysOne ==
    Resolved =>
        /\ bmCall.target = None =>
              \A n \in DOMAIN Unwrap(data.bookmarks) : Unwrap(data.bookmarks)[n] = 0
        /\ (IsSome(bmCall.target)
              /\ Unwrap(bmCall.target) \in world.parents[Unwrap(world.wc)]) =>
              \A n \in DOMAIN Unwrap(data.bookmarks) : Unwrap(data.bookmarks)[n] = 1

\* The bookmark-bearing proper ancestors of the working-copy commit.
BearingAncestors ==
    UNION { Ancestors(p) : p \in world.parents[Unwrap(world.wc)] } \cap BookmarkTargets

\* Commit c is at most as far from the working copy as commit x, by the least
\* number of parent steps or by the size of the range up to the working copy.
NoFurtherThan(c, x) ==
    \/ StepsBack(Unwrap(world.wc), c) <= StepsBack(Unwrap(world.wc), x)
    \/ Cardinality(DagRange(c, Unwrap(world.wc))) <= Cardinality(DagRange(x, Unwrap(world.wc)))

\* C11: when the working-copy commit has no bookmark, the commit whose
\* bookmarks are returned has minimal ancestry distance from the working-copy
\* commit among all bookmark-bearing ancestors, merges included.
C11_NearestBookmark ==
    (Resolved /\ IsSome(bmCall.target)) =>
        \A x \in BearingAncestors : NoFurtherThan(Unwrap(bmCall.target), x)

\* C11, amended: when the working-copy commit has no bookmark, the commit
\* whose bookmarks are returned is a head of the bookmark-bearing ancestors:
\* it bears a local bookmark and is no ancestor of another bookmark-bearing
\* ancestor of the working copy.  Which of several heads is returned is the
\* engine's choice of the latest one, not the nearest; on a history without
\* merges it is the nearest.
C11_TargetIsAHead ==
    (Resolved /\ IsSome(bmCall.target)) =>
        /\ Unwrap(bmCall.target) \in BearingAncestors
        /\ \A x \in BearingAncestors \ { Unwrap(bmCall.target) } :
              Unwrap(bmCall.target) \notin Ancestors(x)
        /\ (\A c \in DOMAIN world.parents : Cardinality(world.parents[c]) <= 1) =>
              \A x \in BearingAncestors :
                  StepsBack(Unwrap(world.wc), Unwrap(bmCall.target))
                      <= StepsBack(Unwrap(world.wc), x)

\* Two bookmark-bearing heads lie at different distances below the merge and
\* the further one was returned.
C11_Witness ==
    /\ Resolved
    /\ IsSome(bmCall.target)
    /\ Cardinality(TugCandidates) = 2
    /\ DOMAIN Unwrap(data.bookmarks) # {}
    /\ \E x \in TugCandidates :
          StepsBack(Unwrap(world.wc), x) < StepsBack(Unwrap(world.wc), Unwrap(bmCall.target))

\* The bookmarks collected on the working-copy commit: its local bookmarks
\* that pass the exclusion filter, and its remote bookmarks, as name@remote,
\* that are not shadowed by one of these and pass the filter.
OnWorkingCopy ==
    CollectedLocal(Unwrap(world.wc), cfg.bookmarks)
        \cup CollectedRemote(Unwrap(world.wc), cfg.bookmarks,
                             CollectedLocal(Unwrap(world.wc), cfg.bookmarks))

\* C12: if the working-copy commit carries at least one collected bookmark,
\* the result is exactly the bookmarks collected on it, all with distance 0;
\* no ancestor query is made and no ancestor bookmark is in the result.
C12_WorkingCopyBookmarksOnly ==
    (Resolved /\ OnWorkingCopy # {}) =>
        /\ data.bookmarks = Some([n \in OnWorkingCopy |-> 0])
        /\ bmCall.target = None
        /\ CallsMade(bmCall) \cap RevsetCalls = { "revset:@" }

\* The working copy and one of its ancestors both carry a bookmark, and the
\* resolution has returned.
C12_Witness ==
    /\ Resolved
    /\ OnWorkingCopy # {}
    /\ \E n \in LocalNames :
          /\ IsSome(world.local[n])
          /\ world.local[n] # world.wc
          /\ ~Excluded(cfg.bookmarks, n)
    /\ IsSome(data.bookmarks)

\* C13: a remote bookmark is in the result, as name@remote, only if no local
\* bookmark with the same bare name points at the same commit, whatever the
\* local bookmarks, the remote bookmarks and the exclusion patterns are.
C13_RemoteShadowedByLocal ==
    Resolved =>
        \A sym \in RemoteSymbols :
            (IsSome(data.bookmarks) /\ RemoteDisplay(sym) \in DOMAIN Unwrap(data.bookmarks)) =>
                ~\E n \in LocalNames :
                    n = sym.name /\ world.local[n] = world.remote[sym]

\* C14: no name in the resolution result matches a configured exclusion
\* pattern, local names as the bare name and remote names as name@remote.
C14_NoExcludedName ==
    (Resolved /\ IsSome(data.bookmarks)) =>
        \A n \in DOMAIN Unwrap(data.bookmarks) :
            ~\E g \in cfg.bookmarks.exclude : GlobMatches(g, n)

\* A pattern matched a bookmark of the commit whose bookmarks were returned,
\* and another bookmark of that commit is in the result.
C14_Witness ==
    /\ Resolved
    /\ IsSome(data.bookmarks)
    /\ DOMAIN Unwrap(data.bookmarks) # {}
    /\ \E n \in LocalNames :
          /\ Excluded(cfg.bookmarks, n)
          /\ world.local[n] = (IF IsSome(bmCall.target) THEN bmCall.target ELSE world.wc)

\* Whether commit c counts towards a distance under the module's
\* ignore_empty_commits.
Counted(c) ==
    CASE cfg.modules[1].ignore_empty_commits = "All" -> world.desc[c] # <<>>
      [] cfg.modules[1].ignore_empty_commits = "Current" ->
            c # Unwrap(world.wc) \/ world.desc[c] # <<>>
      [] OTHER -> TRUE

\* C15: with ignore_empty_commits = All, commits without a description are
\* not counted in a bookmark's distance; with Current the working-copy commit
\* is not counted when its description is empty; with None every commit is
\* counted.
C15_EmptyCommitsNotCounted ==
    (Resolved /\ IsSome(bmCall.target) /\ IsSome(data.bookmarks)) =>
        \A n \in DOMAIN Unwrap(data.bookmarks) :
            Unwrap(data.bookmarks)[n] =
                Cardinality({ c \in DagRange(Unwrap(bmCall.target), Unwrap(world.wc))
                                        \ { Unwrap(bmCall.target) } : Counted(c) })

\* The commits that carry a local or a remote bookmark.
BookmarkedCommits ==
    { c \in DOMAIN world.parents :
        \/ \E n \in LocalNames : world.local[n] = Some(c)
        \/ \E sym \in RemoteSymbols : world.remote[sym] = Some(c) }

\* C23: when the working-copy commit and its ancestors carry no local or
\* remote bookmark, find_parent_bookmarks succeeds, the engine answering its
\* queries, and leaves the bookmark map empty; it does not return an error.
C23_NoBookmarkIsNoError ==
    (/\ bmCall.calls # <<>>
     /\ FailedCalls(bmCall) = {}
     /\ IsSome(world.wc)
     /\ Ancestors(Unwrap(world.wc)) \cap BookmarkedCommits = {}) =>
        /\ bmCall.res.ok
        /\ data.bookmarks = Some(EmptyMap)

\* The only bookmarks sit on commits that are no ancestors of the working
\* copy; the tug revset was evaluated and the stored map is empty.
C23_Witness ==
    /\ Resolved
    /\ BookmarkedCommits # {}
    /\ Ancestors(Unwrap(world.wc)) \cap BookmarkedCommits = {}
    /\ "revset:latest(heads(::@- & bookmarks()))" \in CallsMade(bmCall)
    /\ data.bookmarks = Some(EmptyMap)

\* ---------------------------------------- claims about Bookmarks::print

\* The bookmark names written, in the order they were written: the texts of
\* the output that are keys of the resolved map.
IsName(t) == t.token.kind = "text" /\ t.token.text \in DOMAIN Unwrap(data.bookmarks)
RenderedNames == SelectSeq(out, IsName)

\* The ellipsis markers written.
IsEllipsis(t) ==
    t.token.kind = "text" /\ \E k \in DOMAIN t.token.text : t.token.text[k] = Ellipsis[1]
RenderedEllipses == SelectSeq(out, IsEllipsis)

\* The lexicographic order of the three names.
NameRank(n) == CASE n = <<"a">> -> 1 [] n = <<"a", "@", "o">> -> 2 [] OTHER -> 3

\* C16: bookmarks are rendered by distance ascending and, within a distance,
\* in ascending lexicographic order of name, each name at most once.
C16_RenderedInOrder ==
    pc.phase = "returned" =>
        \A i, j \in DOMAIN RenderedNames :
            i < j =>
                \/ Unwrap(data.bookmarks)[RenderedNames[i].token.text]
                      < Unwrap(data.bookmarks)[RenderedNames[j].token.text]
                \/ /\ Unwrap(data.bookmarks)[RenderedNames[i].token.text]
                        = Unwrap(data.bookmarks)[RenderedNames[j].token.text]
                   /\ NameRank(RenderedNames[i].token.text)
                        < NameRank(RenderedNames[j].token.text)

\* Three names were rendered: b at distance 0 before a and a@o at distance 1.
C16_Witness ==
    /\ pc.phase = "returned"
    /\ Len(RenderedNames) = 3
    /\ RenderedNames[1].token.text = <<"b">>
    /\ RenderedNames[2].token.text = <<"a">>
    /\ Unwrap(data.bookmarks)[<<"b">>] = 0
    /\ Unwrap(data.bookmarks)[<<"a">>] = 1
    /\ Unwrap(data.bookmarks)[<<"a", "@", "o">>] = 1

\* C17: with max_bookmarks = m and n resolved bookmarks, exactly min(n, m)
\* names are written, and the ellipsis marker is written once if n > m and
\* never if n <= m, for every m >= 0.
C17_AtMostMaxBookmarks ==
    (pc.phase = "returned" /\ IsSome(cfg.modules[1].max_bookmarks)) =>
        /\ Len(RenderedNames) =
              IF Cardinality(DOMAIN Unwrap(data.bookmarks)) < Unwrap(cfg.modules[1].max_bookmarks)
              THEN Cardinality(DOMAIN Unwrap(data.bookmarks))
              ELSE Unwrap(cfg.modules[1].max_bookmarks)
        /\ Len(RenderedEllipses) =
              IF Cardinality(DOMAIN Unwrap(data.bookmarks)) > Unwrap(cfg.modules[1].max_bookmarks)
              THEN 1 ELSE 0

\* With max_bookmarks = 0 and a bookmark resolved, the print has written the
\* ellipsis and no name.
C17_Witness ==
    /\ pc.phase = "returned"
    /\ cfg.modules[1].max_bookmarks = Some(0)
    /\ DOMAIN Unwrap(data.bookmarks) # {}
    /\ Len(RenderedEllipses) = 1
    /\ RenderedNames = <<>>

\* --------------------------------------------- claims about the pipeline

ByPrimary(t) == t.by = "primary"
ByWatchdog(t) == t.by = "watchdog"

\* What each thread has written to the output stream, in order.
PrimaryWrites == SelectSeq(out, ByPrimary)
WatchdogWrites == SelectSeq(out, ByWatchdog)

RECURSIVE Tokens(_)
Tokens(ts) == IF ts = <<>> THEN <<>> ELSE << Head(ts).token >> \o Tokens(Tail(ts))

\* The watchdog's whole output: a style reset, then one space.
ResetThenSpace == watchdog_reset.out \o watchdog_space.out

\* C2: if a timeout is configured and the primary thread completed its final
\* write before the watchdog's timer expired, the watchdog, waking afterwards,
\* emits nothing and does not terminate the process.
C2_WatchdogSilentAfterCompletion ==
    (wokeAt = Some("returned") /\ result = Some(Ok(None))) =>
        /\ WatchdogWrites = <<>>
        /\ exited # Some("watchdog")

\* C3 as stated: if a timeout is configured and the primary thread is still
\* rendering when the timer expires (an engine call that never returns
\* included), then eventually the watchdog has written a style reset followed
\* by a single space and has terminated the process.
StillRendering == { Some("parse"), Some("render"), Some("final"), Some("hung") }

C3_WatchdogAlwaysWins ==
    (wokeAt \in StillRendering)
        ~> (exited # None /\ Tokens(WatchdogWrites) = ResetThenSpace)

\* C3, amended: if a timeout is configured and the primary thread is still
\* rendering when the timer expires, the process eventually terminates, by the
\* watchdog or by the primary thread finishing first; and when an engine call
\* never returns, it is the watchdog that writes a style reset followed by a
\* single space and terminates the process.
C3_PromptNeverHung ==
    /\ (wokeAt \in StillRendering) ~> (exited # None)
    /\ (IsSome(cfg.timeout) /\ pc.phase = "hung")
           ~> (exited = Some("watchdog") /\ Tokens(WatchdogWrites) = ResetThenSpace)

\* The watchdog ended the process while an engine call of the primary thread
\* had not returned.
C3_Witness ==
    /\ pc.phase = "hung"
    /\ wokeAt = Some("hung")
    /\ exited = Some("watchdog")
    /\ Tokens(WatchdogWrites) = ResetThenSpace

\* C4: Config::print visits every configured module exactly once in declared
\* order, each module's parse before its render and its render before the
\* next module's parse, and no render without its own parse having succeeded.
C4_ModulesInOrder ==
    /\ \A k \in DOMAIN events :
          /\ events[k].i = (k + 1) \div 2
          /\ events[k].i <= Len(cfg.modules)
          /\ events[k].op = IF k % 2 = 1 THEN "parse" ELSE "render"
          /\ events[k].op = "render" => events[k - 1].res.ok
    /\ (IsSome(result) /\ Unwrap(result).ok) => Len(events) = 2 * Len(cfg.modules)

\* The five default modules were all parsed and rendered.
C4_Witness ==
    /\ cfg.modules = default_modules
    /\ result = Some(Ok(None))
    /\ Len(events) = 2 * Len(default_modules)

\* The renders of the modules before module k, as they were written.
RECURSIVE RendersBefore(_, _)
RendersBefore(evs, k) ==
    IF evs = <<>> THEN <<>>
    ELSE (IF Head(evs).op = "render" /\ Head(evs).i < k THEN Head(evs).wrote ELSE <<>>)
            \o RendersBefore(Tail(evs), k)

RenderedModules == { events[k].i : k \in { j \in DOMAIN events : events[j].op = "render" } }

\* C5: when the parse of module k fails with an engine error, Config::print
\* returns that error and the output stream holds exactly the renders of
\* modules 1..k-1: module k and the later modules are neither parsed nor
\* rendered, and the primary thread appends nothing further, the final reset
\* included.
C5_ParseFailureAborts ==
    /\ [](\A k \in DOMAIN events :
            ~events[k].res.ok =>
                /\ k = Len(events)
                /\ result = Some(events[k].res)
                /\ pc.phase = "returned"
                /\ RenderedModules = 1..(events[k].i - 1)
                /\ Tokens(PrimaryWrites) = RendersBefore(events, events[k].i))
    /\ [][(IsSome(result) /\ ~Unwrap(result).ok) => PrimaryWrites' = PrimaryWrites]_vars

\* The second module's parse failed after the first module had written, and
\* the process ended with that output.
C5_Witness ==
    /\ events # <<>>
    /\ ~events[Len(events)].res.ok
    /\ events[Len(events)].i = 2
    /\ PrimaryWrites # <<>>
    /\ IsSome(result) /\ ~Unwrap(result).ok
    /\ exited = Some("main")

\* The tokens the primary thread wrote outside every module's render.
AfterLastRender(t) == t.by = "primary" /\ t.mod = 0
WrittenAfterModules == SelectSeq(out, AfterLastRender)

\* C18: if the final reset is configured and every module succeeds, the
\* carried style after Config::print is the fully default style, whatever the
\* modules emitted; if it is not configured, nothing is written after the
\* last module's render.
C18_FinalReset ==
    result = Some(Ok(None)) =>
        /\ cfg.reset_color => prev_style = Some(AnsiStyle(NoStyle))
        /\ ~cfg.reset_color =>
              /\ WrittenAfterModules = <<>>
              /\ Tokens(PrimaryWrites) = RendersBefore(events, Len(cfg.modules) + 1)

\* The modules left a coloured style behind and the final reset has replaced
\* it by the default style.
C18_Witness ==
    /\ result = Some(Ok(None))
    /\ cfg.reset_color
    /\ Len(WrittenAfterModules) = 1
    /\ WrittenAfterModules[1].token.kind = "style"
    /\ IsSome(WrittenAfterModules[1].token.from)
    /\ WrittenAfterModules[1].token.from # Some(AnsiStyle(NoStyle))
    /\ WrittenAfterModules[1].token.to = AnsiStyle(NoStyle)

\* C19: under the default configuration, which print_prompt uses when no
\* configuration file exists, the rendered output is followed by the final
\* style reset.
C19_DefaultConfigResets ==
    (cfg = print_prompt_config(None) /\ result = Some(Ok(None))) =>
        /\ cfg.reset_color
        /\ prev_style = Some(AnsiStyle(NoStyle))

\* ------------------------------------------------ claims about the styles

\* The merged style, and the result of merging it with the fallback again.
Merged == Unwrap(lastCall.res.v)
MergedAgain == Unwrap(Unwrap(result).v)

\* C20: merge_with_fallback(s, f) has, for each of the ten fields, s's value
\* if present and otherwise f's value, and merging the result with f again
\* returns the same style.
C20_MergeFieldwise ==
    (pc.phase = "returned" /\ lastCall.acc = "merge_with_fallback") =>
        /\ Merged.color = (IF cfg.style.color # None THEN cfg.style.color
                           ELSE cfg.fallback.color)
        /\ Merged.bg_color = (IF cfg.style.bg_color # None THEN cfg.style.bg_color
                              ELSE cfg.fallback.bg_color)
        /\ \A a \in Attributes :
              Merged.attributes[a] =
                  (IF cfg.style.attributes[a] # None THEN cfg.style.attributes[a]
                   ELSE cfg.fallback.attributes[a])
        /\ MergedAgain = Merged

\* The style and the fallback give different colours, and the fallback makes
\* the text bold where the style says nothing.
C20_Witness ==
    /\ pc.phase = "returned"
    /\ lastCall.acc = "merge_with_fallback"
    /\ cfg.style.color = Some("Red")
    /\ cfg.fallback.color = Some("Blue")
    /\ cfg.style.attributes["bold"] = None
    /\ cfg.fallback.attributes["bold"] = Some(TRUE)
    /\ Merged.color = Some("Red")
    /\ Merged.attributes["bold"] = Some(TRUE)

\* The resolved style of the k-th call, as the terminal library's style.
ResolvedStyle(k) == AnsiStyle(merge_with_fallback(events[k].style, events[k].fallback))

\* C21: Style::format called with a style whose resolved value equals the
\* carried style returns an empty prefix: the second of two renders with the
\* same resolved style writes no escape code.
C21_SameStyleWritesNothing ==
    \A k \in DOMAIN events :
        (events[k].op = "format" /\ events[k].before = Some(ResolvedStyle(k))) =>
            events[k].wrote = <<>>

\* A red style was printed, and then an empty style whose fallback is red:
\* the second call wrote nothing.
C21_Witness ==
    /\ Len(events) = 2
    /\ events[1].op = "format"
    /\ events[1].style = Coloured("Red")
    /\ events[1].wrote # <<>>
    /\ events[2].style = NoStyle
    /\ events[2].fallback = Some(Coloured("Red"))
    /\ events[2].wrote = <<>>

\* C26: after every Style::format/print call the carried style is the
\* resolved style of that call; the first call of a run, with no carried
\* style, writes the full prefix of its style, and every later call writes
\* only the transition from the resolved style of the call before it.
C26_CarriedStyle ==
    \A k \in DOMAIN events :
        events[k].op = "format" =>
            /\ events[k].after = Some(ResolvedStyle(k))
            /\ k = 1 =>
                  /\ events[k].before = None
                  /\ events[k].wrote =
                        << [kind |-> "style", from |-> None, to |-> ResolvedStyle(k)] >>
            /\ k > 1 =>
                  /\ events[k].before = Some(ResolvedStyle(k - 1))
                  /\ events[k].wrote =
                        IF ResolvedStyle(k) = ResolvedStyle(k - 1) THEN <<>>
                        ELSE << [kind |-> "style", from |-> Some(ResolvedStyle(k - 1)),
                                 to |-> ResolvedStyle(k)] >>

\* Two calls with different resolved styles: the second wrote the transition
\* from the first call's style, and its style is the one carried on.
C26_Witness ==
    /\ Len(events) = 2
    /\ events[2].op = "format"
    /\ ResolvedStyle(1) # ResolvedStyle(2)
    /\ Len(events[2].wrote) = 1
    /\ events[2].wrote[1].from = Some(ResolvedStyle(1))
    /\ prev_style = Some(ResolvedStyle(2))

\* C24: once the watchdog has written its style reset, the primary thread
\* writes nothing more: the watchdog's reset and its single space are
\* adjacent and are the last things written before the process terminates.
C24_PrimarySilentAfterReset ==
    \A i, j \in DOMAIN out : (i < j /\ out[i].by = "watchdog") => out[j].by = "watchdog"

\* The full prefix of the default style, then one space.
ResetAndSpace ==
    << [kind |-> "style", from |-> None, to |-> AnsiStyle(NoStyle)],
       [kind |-> "text", text |-> << " " >>] >>

\* C24, amended: once the watchdog has written its style reset, the
\* watchdog writes only its single space and then terminates the process:
\* its output is the reset followed by one space, and nothing is written
\* after the process has terminated.  The primary thread is not stopped: it
\* may write between the reset and the space and after the space.
C24_WatchdogResetThenSpace ==
    /\ [](Tokens(WatchdogWrites) =
             IF wd \in { "space", "exited" } THEN ResetAndSpace
             ELSE IF wd = "reset" THEN SubSeq(ResetAndSpace, 1, 1)
             ELSE <<>>)
    /\ [][exited # None => out' = out]_vars

\* The watchdog has terminated the process, and the primary thread wrote
\* between the watchdog's reset and its space.
C24_Witness ==
    /\ exited = Some("watchdog")
    /\ \E i, j, k \in DOMAIN out :
          /\ i < j /\ j < k
          /\ out[i].by = "watchdog"
          /\ out[j].by = "primary"
          /\ out[k].by = "watchdog"

\* The fact module m renders is absent: no working-copy commit for a Commit
\* module, an empty bookmark set for a Bookmarks module.
AbsentFact(m) ==
    \/ m.type = "Commit" /\ IsNone(world.wc)
    \/ m.type = "Bookmarks" /\ data.bookmarks = Some(EmptyMap)

\* C25: when a module's fact is absent, that module's render writes nothing
\* to the output stream, no text, no separator and no style escape, leaves
\* the carried style unchanged, and the pipeline goes on to the next module.
C25_AbsentFactWritesNothing ==
    [][(pc.phase = "render" /\ pc' # pc /\ AbsentFact(cfg.modules[pc.i])) =>
          /\ SelectSeq(out', ByPrimary) = SelectSeq(out, ByPrimary)
          /\ prev_style' = prev_style
          /\ pc' = AtModule(pc.i + 1)]_vars

\* The number of times the modules' parses have evaluated revset q.
RECURSIVE QueryCount(_, _)
QueryCount(evs, q) ==
    IF evs = <<>> THEN 0
    ELSE Cardinality({ k \in DOMAIN Head(evs).calls : Head(evs).calls[k].call = q })
            + QueryCount(Tail(evs), q)

IsText(t) == t.kind = "text"

\* C27: when the same kind of module is configured twice, the second
\* module's parse gets the cached fact: each of the resolver's engine queries
\* runs at most once per invocation and both Bookmarks modules render the
\* same bookmark set; and a commit description, once stored, is not changed
\* by a later Commit module, whatever its show_previous_if_empty.
C27_FactsResolvedOnce ==
    /\ [](/\ \A q \in RevsetCalls : QueryCount(events, q) <= 1
           /\ \A j, k \in DOMAIN events :
                 (/\ events[j].op = "render" /\ events[k].op = "render"
                  /\ cfg.modules[events[j].i] = cfg.modules[events[k].i]
                  /\ cfg.modules[events[j].i].type = "Bookmarks") =>
                     SelectSeq(events[j].wrote, IsText) = SelectSeq(events[k].wrote, IsText))
    /\ [][/\ IsSome(data.bookmarks) => data'.bookmarks = data.bookmarks
          /\ IsSome(data.desc) => (data'.desc = data.desc /\ data'.ahead = data.ahead)]_vars

\* Two Bookmarks modules were parsed and rendered: the first parse queried
\* the engine, the second did not, and both wrote the same bookmark.
C27_Witness ==
    /\ cfg.modules = << DefaultBookmarks, DefaultBookmarks >>
    /\ result = Some(Ok(None))
    /\ Len(events) = 4
    /\ QueryCount(events, "revset:@") = 1
    /\ events[1].calls # <<>>
    /\ events[3].calls = <<>>
    /\ SelectSeq(events[2].wrote, IsText) # <<>>
    /\ SelectSeq(events[4].wrote, IsText) = SelectSeq(events[2].wrote, IsText)

\* ------------------------------------- claims about the resolver's result

\* The names of the bookmarks on commit c, local and remote, that no
\* exclusion pattern matches.
UnexcludedOn(c) ==
    { n \in LocalNames : world.local[n] = Some(c) /\ ~Excluded(cfg.bookmarks, n) }
    \cup { RemoteDisplay(sym) : sym \in
             { x \in RemoteSymbols : /\ world.remote[x] = Some(c)
                                     /\ ~Excluded(cfg.bookmarks, RemoteDisplay(x)) } }

\* C32: if the working-copy commit has no collected bookmark and some proper
\* ancestor of it carries a bookmark, local or remote, that no exclusion
\* pattern matches, the resolution returns a non-empty result.
C32_AncestorBookmarkFound ==
    (/\ Resolved
     /\ UnexcludedOn(Unwrap(world.wc)) = {}
     /\ \E c \in Ancestors(Unwrap(world.wc)) \ { Unwrap(world.wc) } :
            UnexcludedOn(c) # {}) =>
        DOMAIN Unwrap(data.bookmarks) # {}

\* The commit the bookmark named n in a result points at: local names are
\* bare, remote names are name@remote.
CommitsNamed(n) ==
    { c \in DOMAIN world.parents :
        \/ n \in LocalNames /\ world.local[n] = Some(c)
        \/ \E sym \in RemoteSymbols : RemoteDisplay(sym) = n /\ world.remote[sym] = Some(c) }

\* C33: all bookmarks returned by one resolution carry the same distance:
\* either all are 0 and sit on the working-copy commit, or all carry one
\* value >= 1 and sit on a single ancestor commit; distance 0 occurs only for
\* bookmarks on the working-copy commit itself.
C33_OneDistance ==
    Resolved =>
        \E c \in Ancestors(Unwrap(world.wc)) :
            \A n \in DOMAIN Unwrap(data.bookmarks) :
                /\ c \in CommitsNamed(n)
                /\ \A m \in DOMAIN Unwrap(data.bookmarks) :
                      Unwrap(data.bookmarks)[m] = Unwrap(data.bookmarks)[n]
                /\ Unwrap(data.bookmarks)[n] = 0 <=> c = Unwrap(world.wc)

\* C33 witness: two bookmarks, one local and one remote, were returned from
\* one ancestor with the same distance of 2 or more.
C33_Witness ==
    /\ Resolved
    /\ Cardinality(DOMAIN Unwrap(data.bookmarks)) = 2
    /\ \A n \in DOMAIN Unwrap(data.bookmarks) : Unwrap(data.bookmarks)[n] >= 2

\* ------------------------------------------------ claims about unreachable!()

\* C31: no unreachable!() is ever reached: no parse ends in an accessor's
\* unreachable!(), a load_* that returned Ok has left its slot computed (the
\* workspace for a Bookmarks module, the commit for a Commit module), and
\* Bookmarks::print is only entered with a stored bookmark map, for every
\* module list and every engine outcome.
C31_NoUnreachable ==
    /\ \A k \in DOMAIN events :
          events[k].op = "parse" =>
              (events[k].res.ok \/ events[k].res.e.code # "panic")
    /\ pc.phase = "render" =>
          /\ cfg.modules[pc.i].type = "Bookmarks" =>
                (IsSome(data.bookmarks) /\ IsSome(st.workspace_helper))
          /\ cfg.modules[pc.i].type = "Commit" => IsSome(st.commit)
    /\ pc.phase = "panicked" => cfg.modules[pc.i].type # "Bookmarks"

\* C31 witness: the second of two Bookmarks modules is about to print; its
\* parse returned at once, and the map stored by the first is there.
C31_Witness ==
    /\ pc.phase = "render"
    /\ pc.i = 2
    /\ cfg.modules[1].type = "Bookmarks"
    /\ cfg.modules[2].type = "Bookmarks"
    /\ events[Len(events)].calls = <<>>
    /\ IsSome(data.bookmarks)

\* ------------------------------------------ claims about the Commit module

\* The renders of Commit modules, as positions in the record of steps.
CommitRenders ==
    { k \in DOMAIN events :
        events[k].op = "render" /\ cfg.modules[events[k].i].type = "Commit" }

\* Render k wrote the text t.
WroteText(k, t) ==
    \E n \in DOMAIN events[k].wrote :
        events[k].wrote[n].kind = "text" /\ events[k].wrote[n].text = t

\* Render k wrote its module's 'ahead' marker, or its empty-text placeholder.
WroteAhead(k) == WroteText(k, << cfg.modules[events[k].i].previous_message_symbol >>)
WrotePlaceholder(k) == WroteText(k, cfg.modules[events[k].i].empty_text)

\* The working-copy commit exists and has no description.
Undescribed == IsSome(world.wc) /\ world.desc[Unwrap(world.wc)] = <<>>

\* Render k shows the description of the only parent of the working copy.
ShowsParent(k) ==
    /\ Undescribed
    /\ Cardinality(world.parents[Unwrap(world.wc)]) = 1
    /\ \A p \in world.parents[Unwrap(world.wc)] :
          WroteText(k, IF world.desc[p] # <<>> THEN FirstLine(world.desc[p])
                       ELSE cfg.modules[events[k].i].empty_text)

\* A Commit module with show_previous_if_empty on comes before module i.
EarlierShowsPrevious(i) ==
    \E j \in 1..(i - 1) :
        cfg.modules[j].type = "Commit" /\ cfg.modules[j].show_previous_if_empty

RECURSIVE TextsOf(_)
TextsOf(tokens) ==
    IF tokens = <<>> THEN <<>>
    ELSE (IF Head(tokens).kind = "text" THEN Head(tokens).text ELSE <<>>)
         \o TextsOf(Tail(tokens))

\* The first eight characters of the ids a Commit module shows.
ShownIds(m) ==
    (IF IsSome(m.change) THEN ShortId("k", Unwrap(world.wc)) ELSE <<>>)
    \o (IF IsSome(m.change) /\ IsSome(m.commit) THEN << " " >> ELSE <<>>)
    \o (IF IsSome(m.commit) THEN ShortId("c", Unwrap(world.wc)) ELSE <<>>)

\* C34: for every shortest-unique-prefix length the engine can return for a
\* commit id or a change id, from 1 up to the full length of the id,
\* Commit::print completes without failure and writes a unique part and a
\* non-unique part whose concatenation is the first 8 characters of the id.
C34_IdsPrintedForEveryPrefix ==
    /\ pc.phase # "panicked"
    /\ \A k \in CommitRenders :
          IsSome(world.wc) =>
              /\ Len(TextsOf(events[k].wrote)) >= Len(ShownIds(cfg.modules[events[k].i]))
              /\ SubSeq(TextsOf(events[k].wrote), 1,
                        Len(ShownIds(cfg.modules[events[k].i])))
                    = ShownIds(cfg.modules[events[k].i])

\* ------------------------------------- claims about print_ansi_truncated

\* The text print_ansi_truncated wrote.
WrittenText == IF out = <<>> THEN <<>> ELSE out[1].token.text

\* The text written keeps the first k characters of the name, whole, with
\* the ellipsis after them unless they are the whole name, inside the quotes.
KeepsChars(k) ==
    WrittenText = MaybeQuotes(cfg.surround_with_quotes)
                      \o SubSeq(cfg.name, 1, k)
                      \o (IF k < Len(cfg.name) THEN Ellipsis ELSE <<>>)
                      \o MaybeQuotes(cfg.surround_with_quotes)

\* C22: for every text and every max_length >= 0, print_ansi_truncated cuts
\* only at character boundaries, and the display width of the text it keeps,
\* the ellipsis and the quotes not counted, is at most max_length.
C22_TruncatedWithinWidth ==
    (pc.phase # "idle" /\ IsSome(cfg.max_length)) =>
        /\ pc.phase = "returned"
        /\ \E k \in 0..Len(cfg.name) :
              /\ KeepsChars(k)
              /\ Width(SubSeq(cfg.name, 1, k)) <= Unwrap(cfg.max_length)

\* A text of an accented letter and two ideographs, five columns wide, was
\* cut to fit four columns: the letter and one ideograph are kept.
C22_Witness ==
    /\ pc.phase = "returned"
    /\ cfg.name = << Accented, Ideograph, Ideograph >>
    /\ cfg.max_length = Some(4)
    /\ KeepsChars(2)

====
